---- MODULE Spec2Model ----
(***************************************************************************)
(* Disaster-event ingestion pipeline: feed loops, manual polls, the        *)
(* deduplicating store path, the event -> disaster -> predictions -> alert  *)
(* cascade and the alert dispatcher.                                       *)
(*                                                                         *)
(* Scheduling follows asyncio: one coroutine runs at a time and control    *)
(* changes hands only where the code really suspends (the HTTP fetch of a  *)
(* feed, the HTTP post of an email, asyncio.sleep, asyncio.gather).  The   *)
(* store client is synchronous, so a sequence of store calls between two   *)
(* suspension points is atomic; the variable cur names the coroutine that  *)
(* holds the event loop.                                                   *)
(***************************************************************************)
EXTENDS Integers, Sequences, FiniteSets, TLC

\* ------------------------------------------------------------------ bounds
MaxPolls == 2
MaxBatch == 2
MaxExt == 2
MaxEvents == 2
MaxObs == 2
MaxStarts == 3
MaxStops == 2
MaxFaults == 1
NumRecipients == 2

\* --------------------------------------------------------------- constants
Feeds == {"weather", "gdacs", "usgs", "firms", "social"}

FeedOrder == <<"weather", "gdacs", "usgs", "firms", "social">>

Severity == {"low", "medium", "high", "critical"}

\* The prediction steps in another order.
PredictionTypesSpreadFirst == <<"spread", "severity", "impact">>

PredictionTypes == <<"severity", "spread", "impact">>

CascadeSteps ==
  <<"location", "disaster", "processed", "severity", "spread", "impact",
    "backfill", "alert">>

\* What the log shows of a prediction step whose model call or insert raised.
FailedStep ==
  [severity |-> "severity_failed", spread |-> "spread_failed",
   impact |-> "impact_failed"]

NoTask == 0
NoId == 0
NoCoord == -1
\* _update_source_status keeps the first 500 characters of the message;
\* the messages tried are empty, exactly that long and one longer.
LastErrorMax == 500
ErrorLengths == {0, LastErrorMax, LastErrorMax + 1}
NoError == {}

NoExternalId == <<"none", 0>>

\* The configurations explored: the default environment (no API keys, alerts
\* at critical) and a fully keyed one with a lowered alert threshold.
ConfigSpace ==
  { [ALERT_SEVERITY_THRESHOLD |-> "critical", SENDGRID_API_KEY |-> FALSE,
     TWITTER_BEARER_TOKEN |-> FALSE, FIRMS_API_KEY |-> FALSE,
     OPENWEATHERMAP_API_KEY |-> FALSE, INGESTION_ENABLED |-> TRUE],
    [ALERT_SEVERITY_THRESHOLD |-> "medium", SENDGRID_API_KEY |-> TRUE,
     TWITTER_BEARER_TOKEN |-> TRUE, FIRMS_API_KEY |-> TRUE,
     OPENWEATHERMAP_API_KEY |-> TRUE, INGESTION_ENABLED |-> TRUE] }

\* The runs explored, as budgets of environment events: polls begun, start()
\* and stop() calls, injected failures, ingested rows.  One profile exercises
\* concurrent polls and batches of several events, one the failure of a
\* store, model or upstream call, one the start/stop lifecycle.
Profiles ==
  { [polls |-> MaxPolls, starts |-> 1, stops |-> 0, faults |-> 0,
     events |-> MaxEvents],
    [polls |-> MaxPolls, starts |-> 1, stops |-> 0, faults |-> MaxFaults,
     events |-> 1],
    [polls |-> 1, starts |-> MaxStarts, stops |-> MaxStops, faults |-> 0,
     events |-> 1] }

\* ------------------------------------------------------------------- state
VARIABLES
  cfg,                    \* ingestion_config, fixed at process start
  ingested_events,        \* table ingested_events, in insertion order
  satellite_observations, \* table satellite_observations
  weather_observations,   \* number of rows of weather_observations
  locations,              \* table locations
  disasters,              \* table disasters
  predictions,            \* table predictions
  alert_notifications,    \* table alert_notifications
  external_data_sources,  \* table external_data_sources, by feed
  is_running,             \* IngestionOrchestrator._running
  loop_tasks,             \* IngestionOrchestrator._tasks
  ml_service,             \* IngestionOrchestrator._ml_service is set
  tasks,                  \* every coroutine created so far
  cur,                    \* the coroutine holding the event loop
  uuids,                  \* location ids minted by uuid4
  polls,                  \* polls begun
  starts,                 \* start() calls that created tasks
  stops,                  \* stop() calls
  faults,                 \* store/model/upstream failures injected
  budget,                 \* the profile of the run
  log,                    \* cascade steps performed, in order
  sessions,               \* chatbot_service._sessions, by session id
  nlp_calls,              \* the calls of nlp_service made, with results
  triage_text,            \* the text that is submitted for triage
  solve_input,            \* the arguments solve_allocation is called with
  solve_result,           \* the AllocationResult it returned
  resource_table,         \* table resources, by position
  allocate_calls,         \* the POST /resources/allocate requests served
  resource_log,           \* the writes to table resources, in order
  resource_requests,      \* table resource_requests
  request_calls,          \* the requests on /victim/requests/{id} served
  training_in_progress,   \* retrain._training_in_progress
  retrain_calls,          \* the POST /retrain and /retrain-sync requests
  app_state,              \* where the lifespan of the application stands
  anomaly_detector,       \* AnomalyDetectionService._running and its loop
  sitrep_cron_task,       \* the task running _sitrep_cron_loop
  utc_hour,               \* datetime.utcnow(), the hour of the day
  delete_returned         \* what the last delete_session call returned

vars ==
  <<cfg, ingested_events, satellite_observations, weather_observations,
    locations, disasters, predictions, alert_notifications,
    external_data_sources, is_running, loop_tasks, ml_service, tasks, cur,
    uuids, polls, starts, stops, faults, budget, log, sessions, nlp_calls,
    triage_text, solve_input, solve_result, resource_table, allocate_calls,
    resource_log, resource_requests, request_calls, training_in_progress,
    retrain_calls, app_state, anomaly_detector, sitrep_cron_task, utc_hour,
    delete_returned>>

\* The state of the routers that work on the resources and on the resource
\* requests.
routerVars ==
  <<resource_table, allocate_calls, resource_log, resource_requests,
    request_calls>>

\* The state of the request-time services, which the ingestion pipeline
\* never touches, and the state of the pipeline.
\* The state of the process outside the services: the retraining flag and
\* the jobs it guards.
lifespanVars == <<app_state, anomaly_detector, sitrep_cron_task, utc_hour>>

processVars == <<training_in_progress, retrain_calls, lifespanVars>>

serviceVars ==
  <<sessions, nlp_calls, triage_text, solve_input, solve_result, routerVars,
    processVars, delete_returned>>

ingestionVars ==
  <<cfg, ingested_events, satellite_observations, weather_observations,
    locations, disasters, predictions, alert_notifications,
    external_data_sources, is_running, loop_tasks, ml_service, tasks, cur,
    uuids, polls, starts, stops, faults, budget, log>>

\* What the chatbot, the triage functions and the allocation solver leave
\* alone.
notSessions ==
  <<ingestionVars, nlp_calls, triage_text, solve_input, solve_result,
    routerVars, processVars>>

notChat == <<notSessions, delete_returned>>

notNlp ==
  <<ingestionVars, sessions, triage_text, solve_input, solve_result,
    routerVars, processVars, delete_returned>>

notSolve ==
  <<ingestionVars, sessions, nlp_calls, triage_text, routerVars, processVars,
    delete_returned>>

notRouters ==
  <<ingestionVars, sessions, nlp_calls, triage_text, solve_input,
    solve_result, processVars, delete_returned>>

\* What the retraining endpoints leave alone.
notProcess ==
  <<ingestionVars, sessions, nlp_calls, triage_text, solve_input,
    solve_result, routerVars, delete_returned>>

\* What the background tasks of the lifespan leave alone.
notLifespan == <<notProcess, training_in_progress, retrain_calls>>

storeVars ==
  <<ingested_events, satellite_observations, weather_observations, locations,
    disasters, predictions, alert_notifications, external_data_sources>>

\* ----------------------------------------------------------------- helpers
Range(s) == {s[i] : i \in DOMAIN s}

SeqsUpTo(S, n) == UNION {[1..k -> S] : k \in 0..n}

\* external_id wire format: "<prefix>-<upstream id>"; a GDACS item without
\* gdacs:eventid has external_id None.
ExternalId(feed, n) == IF n = 0 THEN NoExternalId ELSE <<feed, n>>

\* The upstream records of a feed, by upstream id n: the severity and the
\* coordinates the adapter derives from the record (cell: the +-0.5 degree
\* window the coordinates fall in, cell 0 holding latitude 0, longitude 0).
UpstreamSeverity(n) ==
  CASE n = 1 -> "critical"
    [] n = 3 -> "high"
    [] n = 4 -> "low"
    [] OTHER -> "medium"

UpstreamCell(n) ==
  CASE n = 1 -> 1
    [] n = 3 -> 0
    [] n = 4 -> 1
    [] OTHER -> NoCoord

\* The candidates a poll of a feed can hand to the deduplicator.  Only a
\* GDACS item can lack its id (n = 0).
Candidates(feed) ==
  {[n |-> n, severity |-> UpstreamSeverity(n), cell |-> UpstreamCell(n)] :
     n \in (IF feed = "gdacs" THEN 0 ELSE 1)..MaxExt}

Batches(feed) == SeqsUpTo(Candidates(feed), MaxBatch)

NewTask(kind, feed) ==
  [kind |-> kind, feed |-> feed, pc |-> "wait", cancelled |-> FALSE,
   awaiting |-> {}, poll |-> 0, events |-> <<>>, idx |-> 0, did |-> NoId,
   pids |-> <<>>, recipients |-> 0, rix |-> 0]

\* A coroutine's frame once it has left the poll: its locals are gone.
Idle(t, pc) ==
  [t EXCEPT !.pc = pc, !.awaiting = {}, !.poll = 0, !.events = <<>>,
            !.idx = 0, !.did = NoId, !.pids = <<>>, !.recipients = 0,
            !.rix = 0]

\* ------------------------------------------------------------------- Init
InitIngestion ==
  /\ cfg \in ConfigSpace
  /\ ingested_events = <<>>
  /\ satellite_observations = <<>>
  /\ weather_observations = 0
  /\ locations = {}
  /\ disasters = <<>>
  /\ predictions = <<>>
  /\ alert_notifications = <<>>
  /\ external_data_sources =
       [f \in Feeds |-> [present |-> FALSE, last_status |-> "none",
                         last_error |-> NoError]]
  /\ is_running = FALSE
  /\ loop_tasks = <<>>
  /\ ml_service = FALSE
  /\ tasks = <<>>
  /\ cur = NoTask
  /\ uuids = 0
  /\ polls = 0
  /\ starts = 0
  /\ stops = 0
  /\ faults = 0
  /\ budget \in Profiles
  /\ log = <<>>

\* The services hold no session and have served no call.
InitServices ==
  /\ sessions = <<>>
  /\ nlp_calls = {}
  /\ solve_result = <<>>
  /\ allocate_calls = <<>>
  /\ resource_log = <<>>
  /\ request_calls = <<>>
  /\ training_in_progress = FALSE
  /\ retrain_calls = <<>>
  /\ app_state = "startup"
  /\ anomaly_detector = [running |-> FALSE, pc |-> "none", left |-> 0,
                         stopped |-> FALSE]
  /\ sitrep_cron_task = [pc |-> "none", left |-> 0, cancelled |-> FALSE,
                         ended |-> "no"]
  /\ utc_hour = 0
  /\ delete_returned = <<>>

\* No resource and no resource request is stored.
EmptyTables ==
  /\ resource_table = <<>>
  /\ resource_requests = <<>>

\* No text and no allocation problem is submitted.
NoInput == <<>>

Init ==
  /\ InitIngestion /\ InitServices /\ EmptyTables
  /\ triage_text = <<>>
  /\ solve_input = NoInput

\* ---------------------------------------------------------- source status
\* _update_source_status: an update by source_name touches the registry row
\* only if it exists; a store error is swallowed (outcome "raise").  error is
\* the length of str(exc) in a singleton, or NoError; an empty message is
\* falsy and stored as None.
LastError(error) ==
  {IF n > LastErrorMax THEN LastErrorMax ELSE n : n \in error \ {0}}

UpdateSourceStatus(eds, feed, status, error, outcome) ==
  IF eds[feed].present /\ outcome = "ok"
  THEN [eds EXCEPT ![feed].last_status = status,
                   ![feed].last_error = LastError(error)]
  ELSE eds

\* _get_source_id: the adapter registers its row on first use.
GetSourceId(eds, feed) == [eds EXCEPT ![feed].present = TRUE]

\* ----------------------------------------------------------- deduplicator
\* The per-item existence check of _deduplicate_and_store: an item without
\* external_id skips the check; the others are looked up in the table as it
\* is BEFORE the bulk insert.
IsNew(item, feed, table) ==
  \/ item.n = 0
  \/ ~ \E i \in DOMAIN table : table[i].external_id = ExternalId(feed, item.n)

NewItems(items, feed, table) ==
  SelectSeq(items, LAMBDA it : IsNew(it, feed, table))

\* The rows built for the new items; id is the row's uuid4, poll the number
\* of the poll that ingested the row.
NewRows(items, feed, table, poll) ==
  LET new == NewItems(items, feed, table)
  IN [i \in 1..Len(new) |->
        [id |-> Len(table) + i, source |-> feed,
         external_id |-> ExternalId(feed, new[i].n),
         severity |-> new[i].severity, cell |-> new[i].cell,
         processed |-> FALSE, disaster_id |-> NoId, prediction_ids |-> <<>>,
         poll |-> poll]]

\* _store_observations of the FIRMS adapter: one IN query for the batch, then
\* the observations whose external_id was not found.
NewObservations(items, table) ==
  LET existing_ids == {table[i].external_id : i \in DOMAIN table}
                        \cap {ExternalId("firms", items[j].n) : j \in DOMAIN items}
  IN SelectSeq([j \in DOMAIN items |->
                  [external_id |-> ExternalId("firms", items[j].n)]],
               LAMBDA o : o.external_id \notin existing_ids)

\* --------------------------------------------------------------- lifecycle
Suspended(t) == tasks[t].pc \in {"wait", "fetch", "email", "gather"}

\* IngestionOrchestrator.start: one loop task per feed, replacing _tasks.
StartBody ==
  IF ~cfg.INGESTION_ENABLED
  THEN UNCHANGED <<is_running, loop_tasks, tasks, starts>>
  ELSE /\ is_running' = TRUE
       /\ tasks' = tasks \o [i \in 1..Len(FeedOrder) |->
                               NewTask("loop", FeedOrder[i])]
       /\ loop_tasks' = [i \in 1..Len(FeedOrder) |-> Len(tasks) + i]
       /\ starts' = starts + 1

\* main.lifespan: the orchestrator is built, given the ML service, started.
Lifespan ==
  /\ ~ml_service
  /\ cur = NoTask
  /\ ml_service' = TRUE
  /\ StartBody
  /\ UNCHANGED <<cfg, storeVars, cur, uuids, polls, faults, log, stops,
                 budget, serviceVars>>

\* POST /api/ingestion/start
StartRoute ==
  /\ ml_service
  /\ cur = NoTask
  /\ ~is_running
  /\ starts < budget.starts
  /\ StartBody
  /\ UNCHANGED <<cfg, storeVars, ml_service, cur, uuids, polls, faults, log,
                 stops, budget, serviceVars>>

\* POST /api/ingestion/stop: stop() up to its await of asyncio.gather.
StopRoute ==
  /\ ml_service
  /\ cur = NoTask
  /\ is_running
  /\ stops < budget.stops
  /\ stops' = stops + 1
  /\ is_running' = FALSE
  /\ LET live == {loop_tasks[i] : i \in DOMAIN loop_tasks}
         cancelled == [i \in DOMAIN tasks |->
                         IF i \in live /\ tasks[i].pc # "done"
                         THEN [tasks[i] EXCEPT !.cancelled = TRUE]
                         ELSE tasks[i]]
     IN IF live = {}
        THEN UNCHANGED <<tasks, loop_tasks>>
        ELSE /\ tasks' = Append(cancelled,
                                [NewTask("stop", "none") EXCEPT
                                   !.pc = "gather", !.awaiting = live])
             /\ UNCHANGED loop_tasks
  /\ UNCHANGED <<cfg, storeVars, ml_service, cur, uuids, polls, starts,
                 faults, log, budget, serviceVars>>

\* stop() after gather returned: self._tasks.clear().
StopResume(t) ==
  /\ cur = NoTask
  /\ tasks[t].kind = "stop" /\ tasks[t].pc = "gather"
  /\ \A a \in tasks[t].awaiting : tasks[a].pc = "done"
  /\ loop_tasks' = <<>>
  /\ tasks' = [tasks EXCEPT ![t] = Idle(@, "done")]
  /\ UNCHANGED <<cfg, storeVars, is_running, ml_service, cur, uuids, polls,
                 starts, faults, log, stops, budget, serviceVars>>

\* The cancelled tasks are resumed with CancelledError at their suspension
\* points: the sleep is outside the try, the fetch and the email post are
\* left through "except asyncio.CancelledError: break".  task.cancel() queues
\* these wake-ups together, so they run back to back.
Cancelled == {t \in DOMAIN tasks : tasks[t].cancelled /\ tasks[t].pc # "done"}

CancelDelivered ==
  /\ cur = NoTask
  /\ Cancelled # {}
  /\ tasks' = [t \in DOMAIN tasks |->
                 IF t \in Cancelled THEN Idle(tasks[t], "done") ELSE tasks[t]]
  /\ UNCHANGED <<cfg, storeVars, is_running, loop_tasks, ml_service, cur,
                 uuids, polls, starts, faults, log, stops, budget, serviceVars>>

\* _loop: "while self._running" is false when the task is resumed.
LoopExit(t) ==
  /\ cur = NoTask
  /\ tasks[t].kind = "loop" /\ tasks[t].pc = "wait" /\ ~tasks[t].cancelled
  /\ ~is_running
  /\ tasks' = [tasks EXCEPT ![t] = Idle(@, "done")]
  /\ UNCHANGED <<cfg, storeVars, is_running, loop_tasks, ml_service, cur,
                 uuids, polls, starts, faults, log, stops, budget, serviceVars>>

\* ------------------------------------------------------------------ polls
HasKey(feed) ==
  CASE feed = "social" -> cfg.TWITTER_BEARER_TOKEN
    [] feed = "firms" -> cfg.FIRMS_API_KEY
    [] feed = "weather" -> cfg.OPENWEATHERMAP_API_KEY
    [] OTHER -> TRUE

\* poll() up to its first suspension: with credentials the coroutine suspends
\* in the HTTP fetch; without them the mock generator is used at once.
PollEnter(t, task) ==
  /\ polls < budget.polls
  /\ polls' = polls + 1
  /\ IF HasKey(task.feed)
     THEN /\ tasks' = [[i \in DOMAIN tasks \cup {t} |->
                          IF i = t THEN task ELSE tasks[i]]
                       EXCEPT ![t].pc = "fetch", ![t].poll = polls + 1]
          /\ cur' = NoTask
     ELSE /\ tasks' = [[i \in DOMAIN tasks \cup {t} |->
                          IF i = t THEN task ELSE tasks[i]]
                       EXCEPT ![t].pc = "store_mock", ![t].poll = polls + 1]
          /\ cur' = t

\* _loop: the next iteration calls poll_fn.
LoopPoll(t) ==
  /\ cur = NoTask
  /\ tasks[t].kind = "loop" /\ tasks[t].pc = "wait" /\ ~tasks[t].cancelled
  /\ is_running
  /\ PollEnter(t, tasks[t])
  /\ UNCHANGED <<cfg, storeVars, is_running, loop_tasks, ml_service, uuids,
                 starts, faults, log, stops, budget, serviceVars>>

\* POST /api/ingestion/poll/{source}: poll_source calls the adapter's poll.
ManualPoll(feed) ==
  /\ ml_service
  /\ cur = NoTask
  /\ PollEnter(Len(tasks) + 1, NewTask("manual", feed))
  /\ UNCHANGED <<cfg, storeVars, is_running, loop_tasks, ml_service, uuids,
                 starts, faults, log, stops, budget, serviceVars>>

\* Every adapter lets the failure of its upstream call leave poll().
FetchReturnRaises(t, upstream) ==
  /\ cur = NoTask
  /\ tasks[t].pc = "fetch" /\ ~tasks[t].cancelled
  /\ cur' = t
  /\ tasks' = [tasks EXCEPT ![t].pc =
                 IF upstream = "ok" THEN "store_try" ELSE "raised"]
  /\ UNCHANGED <<cfg, storeVars, is_running, loop_tasks, ml_service, uuids,
                 polls, starts, faults, log, stops, budget, serviceVars>>

\* The HTTP fetch returned or failed.  A failure (and, for USGS and GDACS, an
\* empty result) is replaced by the mock generator's batch; the FIRMS adapter
\* returns [] on failure instead.
FetchReturn(t, upstream) ==
  /\ cur = NoTask
  /\ tasks[t].pc = "fetch" /\ ~tasks[t].cancelled
  /\ cur' = t
  /\ tasks' = [tasks EXCEPT ![t].pc =
                 IF upstream = "ok" THEN "store_try"
                 ELSE IF tasks[t].feed \in {"firms", "weather"} THEN "returned"
                 ELSE "store_mock"]
  /\ UNCHANGED <<cfg, storeVars, is_running, loop_tasks, ml_service, uuids,
                 polls, starts, faults, log, stops, budget, serviceVars>>

\* ---------------------------------------------------------- fault budget
Cost(o) == IF o = "ok" THEN 0 ELSE 1

Spend(n) == faults + n <= budget.faults /\ faults' = faults + n

\* Where an exception raised by the store call of a poll goes: inside the
\* try of poll() the except branch falls back to the mock batch; outside it
\* the exception leaves poll().
AfterStoreRaise(t) ==
  IF tasks[t].pc = "store_try"
  THEN IF tasks[t].feed = "firms" THEN "returned" ELSE "store_mock"
  ELSE "raised"

\* USGS / GDACS / social: _deduplicate_and_store(items).  Its result goes to
\* the router (poll_source) or to the _poll_<feed> handler, which walks it.
DeduplicateAndStore(t, items, outcome) ==
  /\ cur = t
  /\ tasks[t].pc \in {"store_try", "store_mock"}
  /\ tasks[t].feed \in {"usgs", "gdacs", "social"}
  /\ items \in Batches(tasks[t].feed)
  /\ LET feed == tasks[t].feed
         rows == NewRows(items, feed, ingested_events, tasks[t].poll)
     IN /\ Len(ingested_events) + Len(rows) <= budget.events
        /\ outcome \in (IF rows = <<>> THEN {"ok"} ELSE {"ok", "raise"})
        /\ Spend(Cost(outcome))
        /\ external_data_sources' =
             IF items = <<>> THEN external_data_sources
             ELSE GetSourceId(external_data_sources, feed)
        /\ IF outcome = "ok"
           THEN /\ ingested_events' = ingested_events \o rows
                /\ tasks' = [tasks EXCEPT
                     ![t].pc = IF tasks[t].kind = "loop" THEN "next"
                               ELSE "returned",
                     ![t].events = [i \in DOMAIN rows |-> rows[i].id]]
           ELSE /\ UNCHANGED ingested_events
                /\ tasks' = [tasks EXCEPT ![t].pc = AfterStoreRaise(t)]
  /\ UNCHANGED <<cfg, satellite_observations, weather_observations, locations,
                 disasters, predictions, alert_notifications, is_running,
                 loop_tasks, ml_service, cur, uuids, polls, starts, log,
                 stops, budget, serviceVars>>

\* FIRMS: _store_observations(observations); _poll_firms drops the result.
StoreObservations(t, items, outcome) ==
  /\ cur = t
  /\ tasks[t].pc \in {"store_try", "store_mock"}
  /\ tasks[t].feed = "firms"
  /\ items \in Batches("firms")
  /\ LET new_obs == NewObservations(items, satellite_observations)
     IN /\ Len(satellite_observations) + Len(new_obs) <= MaxObs
        /\ outcome \in (IF new_obs = <<>> THEN {"ok"} ELSE {"ok", "raise"})
        /\ Spend(Cost(outcome))
        /\ IF outcome = "ok"
           THEN /\ satellite_observations' = satellite_observations \o new_obs
                /\ tasks' = [tasks EXCEPT ![t].pc = "returned"]
           ELSE /\ UNCHANGED satellite_observations
                /\ tasks' = [tasks EXCEPT ![t].pc = AfterStoreRaise(t)]
  /\ UNCHANGED <<cfg, ingested_events, weather_observations, locations,
                 disasters, predictions, alert_notifications,
                 external_data_sources, is_running, loop_tasks, ml_service,
                 cur, uuids, polls, starts, log, stops, budget, serviceVars>>

\* Weather: the observations fetched (or mocked) are stored; nothing else.
WeatherStore(t, n) ==
  /\ cur = t
  /\ tasks[t].pc \in {"store_try", "store_mock"}
  /\ tasks[t].feed = "weather"
  /\ n \in 0..1
  /\ weather_observations + n <= MaxObs
  /\ weather_observations' = weather_observations + n
  /\ tasks' = [tasks EXCEPT ![t].pc = "returned"]
  /\ UNCHANGED <<cfg, ingested_events, satellite_observations, locations,
                 disasters, predictions, alert_notifications,
                 external_data_sources, is_running, loop_tasks, ml_service,
                 cur, uuids, polls, starts, faults, log, stops, budget, serviceVars>>

\* The end of a poll: _loop records success or error in the registry and
\* sleeps; poll_source returns (or the router answers 500).
PollDone(t, error, outcome) ==
  /\ cur = t /\ tasks[t].pc \in {"returned", "raised"}
  /\ error \in (IF tasks[t].kind = "loop" /\ tasks[t].pc = "raised"
                    /\ external_data_sources[tasks[t].feed].present
                    /\ outcome = "ok"
                 THEN {{n} : n \in ErrorLengths} ELSE {NoError})
  /\ outcome \in (IF tasks[t].kind = "loop"
                     /\ external_data_sources[tasks[t].feed].present
                  THEN {"ok", "raise"} ELSE {"ok"})
  /\ Spend(Cost(outcome))
  /\ IF tasks[t].kind = "loop"
     THEN /\ external_data_sources' =
               UpdateSourceStatus(external_data_sources, tasks[t].feed,
                 IF tasks[t].pc = "returned" THEN "success" ELSE "error",
                 error, outcome)
          /\ tasks' = [tasks EXCEPT ![t] = Idle(@, "wait")]
     ELSE /\ UNCHANGED external_data_sources
          /\ tasks' = [tasks EXCEPT ![t] = Idle(@, "done")]
  /\ cur' = NoTask
  /\ UNCHANGED <<cfg, ingested_events, satellite_observations,
                 weather_observations, locations, disasters, predictions,
                 alert_notifications, is_running, loop_tasks, ml_service,
                 uuids, polls, starts, log, stops, budget, serviceVars>>

\* ----------------------------------------------------------------- cascade
CurrentEvent(t) == ingested_events[tasks[t].events[tasks[t].idx]]

Logged(t, steps) ==
  log \o [i \in DOMAIN steps |-> <<tasks[t].events[tasks[t].idx], steps[i]>>]

\* _poll_gdacs / _poll_usgs / _poll_social: "for event in events".  Social
\* events go to the cascade only when critical or high, else straight to the
\* alert evaluation.
EntersCascadeAlways(feed, severity) == feed \in Feeds

EntersCascade(feed, severity) ==
  feed # "social" \/ severity \in {"critical", "high"}

NextEvent(t) ==
  /\ cur = t /\ tasks[t].pc = "next"
  /\ LET i == tasks[t].idx + 1
     IN IF i > Len(tasks[t].events)
        THEN tasks' = [tasks EXCEPT ![t].pc = "returned"]
        ELSE LET ev == ingested_events[tasks[t].events[i]]
             IN tasks' = [tasks EXCEPT
                  ![t].idx = i, ![t].did = NoId, ![t].pids = <<>>,
                  ![t].recipients = 0, ![t].rix = 0,
                  ![t].pc = IF EntersCascade(tasks[t].feed, ev.severity)
                            THEN "disaster" ELSE "alert"]
  /\ UNCHANGED <<cfg, storeVars, is_running, loop_tasks, ml_service, cur,
                 uuids, polls, starts, faults, log, stops, budget, serviceVars>>

\* _find_or_create_location: the id it returns, or its exception.  pick is
\* the row the "limit(1)" select returned (NoId: none); an insert that returns
\* no row still yields the locally minted id.
FindOrCreateLocation(ev, pick, selO, insO) ==
  IF ev.cell # NoCoord /\ selO = "raise"
  THEN [raised |-> TRUE, id |-> NoId, rows |-> locations, minted |-> uuids]
  ELSE IF ev.cell # NoCoord /\ pick # NoId
  THEN [raised |-> FALSE, id |-> pick, rows |-> locations, minted |-> uuids]
  ELSE LET loc_data == [id |-> uuids + 1,
                        cell |-> IF ev.cell = NoCoord THEN 0 ELSE ev.cell]
       IN CASE insO = "ok" ->
                 [raised |-> FALSE, id |-> loc_data.id,
                  rows |-> locations \cup {loc_data}, minted |-> uuids + 1]
            [] insO = "norow" ->
                 [raised |-> FALSE, id |-> loc_data.id, rows |-> locations,
                  minted |-> uuids + 1]
            [] OTHER ->
                 [raised |-> TRUE, id |-> NoId, rows |-> locations,
                  minted |-> uuids + 1]

\* The rows a location select can return for the event's coordinates.
Nearby(ev) ==
  IF ev.cell = NoCoord THEN {}
  ELSE {l.id : l \in {x \in locations : x.cell = ev.cell}}

\* A handler that goes on whatever _auto_create_disaster returned.
AfterDisasterUnchecked(did) == "mark"

\* _process_disaster_event: "if not disaster_id: return".
AfterDisaster(did) == IF did = NoId THEN "next" ELSE "mark"

\* _auto_create_disaster, with _find_or_create_location inside its try.  An
\* insert that raises or returns no row makes it return None ("aborted").
AutoCreateDisaster(t, pick, selO, insO, disO) ==
  /\ cur = t /\ tasks[t].pc = "disaster"
  /\ LET ev == CurrentEvent(t)
         near == Nearby(ev)
     IN /\ pick \in (IF near = {} \/ selO = "raise" THEN {NoId} ELSE near)
        /\ selO \in (IF ev.cell = NoCoord THEN {"ok"} ELSE {"ok", "raise"})
        /\ insO \in (IF pick # NoId \/ selO = "raise" THEN {"ok"}
                     ELSE {"ok", "norow", "raise"})
        /\ LET loc == FindOrCreateLocation(ev, pick, selO, insO)
           IN /\ disO \in (IF loc.raised THEN {"ok"}
                           ELSE {"ok", "norow", "raise"})
              /\ Spend(Cost(selO) + Cost(insO) + Cost(disO))
              /\ locations' = loc.rows
              /\ uuids' = loc.minted
              /\ LET created == ~loc.raised /\ disO = "ok"
                     did == IF created THEN Len(disasters) + 1 ELSE NoId
                 IN /\ disasters' =
                         IF created
                         THEN Append(disasters,
                                [id |-> did, location_id |-> loc.id,
                                 severity |-> ev.severity, event |-> ev.id])
                         ELSE disasters
                    /\ tasks' = [tasks EXCEPT ![t].did = did,
                                              ![t].pc = AfterDisaster(did)]
                    /\ log' = Logged(t,
                         (IF loc.raised THEN <<>> ELSE <<"location">>)
                         \o (IF created THEN <<"disaster">>
                             ELSE <<"aborted">>))
  /\ UNCHANGED <<cfg, ingested_events, satellite_observations,
                 weather_observations, predictions, alert_notifications,
                 external_data_sources, is_running, loop_tasks, ml_service,
                 cur, polls, starts, stops, budget, serviceVars>>

\* The two updates _process_disaster_event makes to the event's row.
ProcessedRow(row, did) ==
  [row EXCEPT !.processed = TRUE, !.disaster_id = did]

\* A back-fill that rewrites the whole row from the dictionary returned by
\* the deduplicator (where processed is still false).
LinkedRowFromSnapshot(row, pids) ==
  [row EXCEPT !.prediction_ids = pids, !.processed = FALSE,
              !.disaster_id = NoId]

LinkedRow(row, pids) == [row EXCEPT !.prediction_ids = pids]

\* _process_disaster_event: mark the ingested event processed.
MarkProcessed(t, outcome) ==
  /\ cur = t /\ tasks[t].pc = "mark"
  /\ outcome \in {"ok", "raise"}
  /\ Spend(Cost(outcome))
  /\ LET e == tasks[t].events[tasks[t].idx]
     IN IF outcome = "ok"
        THEN /\ ingested_events' = [ingested_events EXCEPT
                  ![e] = ProcessedRow(@, tasks[t].did)]
             /\ tasks' = [tasks EXCEPT ![t].pc = "predict"]
             /\ log' = Logged(t, <<"processed">>)
        ELSE /\ UNCHANGED <<ingested_events, log>>
             /\ tasks' = [tasks EXCEPT ![t].pc = "raised"]
  /\ UNCHANGED <<cfg, satellite_observations, weather_observations, locations,
                 disasters, predictions, alert_notifications,
                 external_data_sources, is_running, loop_tasks, ml_service,
                 cur, uuids, polls, starts, stops, budget, serviceVars>>

\* Prediction steps without their guards: the first failure ends the batch.
AttemptsUntilFailure(predO) ==
  LET first == IF \E i \in 1..3 : predO[i] # "ok"
               THEN CHOOSE i \in 1..3 :
                      /\ predO[i] # "ok"
                      /\ \A j \in 1..(i - 1) : predO[j] = "ok"
               ELSE 3
  IN [i \in 1..first |-> IF predO[i] = "ok" THEN PredictionTypes[i]
                         ELSE FailedStep[PredictionTypes[i]]]

\* The three guarded prediction steps, in the order the code runs them: each
\* either writes its prediction or logs its failure, and the next one runs.
Attempts(predO) ==
  [i \in 1..3 |-> IF predO[i] = "ok" THEN PredictionTypes[i]
                  ELSE FailedStep[PredictionTypes[i]]]

\* The prediction types whose model call and insert both succeeded.
Succeeded(attempts) ==
  SelectSeq(attempts, LAMBDA a : a \in Range(PredictionTypes))

\* _run_batch_predictions.
RunBatchPredictions(t, selO, weatherO, predO) ==
  /\ cur = t /\ tasks[t].pc = "predict"
  /\ selO \in (IF ml_service THEN {"ok", "raise"} ELSE {"ok"})
  /\ LET ev == CurrentEvent(t)
         location_id == IF ~ml_service \/ selO = "raise"
                           \/ tasks[t].did \notin DOMAIN disasters
                        THEN NoId
                        ELSE disasters[tasks[t].did].location_id
         \* "if lat and lon": coordinates 0 are falsy
         reads_weather == location_id # NoId /\ ev.cell > 0
     IN /\ weatherO \in (IF reads_weather THEN {"ok", "raise"} ELSE {"ok"})
        /\ predO \in (IF location_id = NoId \/ weatherO = "raise"
                      THEN {<<"ok", "ok", "ok">>}
                      ELSE [1..3 -> {"ok", "raise"}])
        /\ Spend(Cost(selO) + Cost(weatherO) + Cost(predO[1])
                 + Cost(predO[2]) + Cost(predO[3]))
        /\ IF weatherO = "raise"
           THEN /\ UNCHANGED <<predictions, log>>
                /\ tasks' = [tasks EXCEPT ![t].pc = "raised"]
           ELSE IF location_id = NoId
           THEN /\ UNCHANGED <<predictions, log>>
                /\ tasks' = [tasks EXCEPT ![t].pids = <<>>,
                                          ![t].pc = "backfill"]
           ELSE LET done == Succeeded(Attempts(predO))
                    rows == [i \in DOMAIN done |->
                               [id |-> Len(predictions) + i,
                                disaster_id |-> tasks[t].did,
                                location_id |-> location_id,
                                prediction_type |-> done[i]]]
                IN /\ predictions' = predictions \o rows
                   /\ tasks' = [tasks EXCEPT
                        ![t].pids = [i \in DOMAIN rows |-> rows[i].id],
                        ![t].pc = "backfill"]
                   /\ log' = Logged(t, Attempts(predO))
  /\ UNCHANGED <<cfg, ingested_events, satellite_observations,
                 weather_observations, locations, disasters,
                 alert_notifications, external_data_sources, is_running,
                 loop_tasks, ml_service, cur, uuids, polls, starts, stops,
                 budget, serviceVars>>

\* _process_disaster_event: link the prediction ids back to the event.
BackFill(t, outcome) ==
  /\ cur = t /\ tasks[t].pc = "backfill"
  /\ outcome \in (IF tasks[t].pids = <<>> THEN {"ok"} ELSE {"ok", "raise"})
  /\ Spend(Cost(outcome))
  /\ LET e == tasks[t].events[tasks[t].idx]
     IN IF outcome = "raise"
        THEN /\ UNCHANGED <<ingested_events, log>>
             /\ tasks' = [tasks EXCEPT ![t].pc = "raised"]
        ELSE /\ tasks' = [tasks EXCEPT ![t].pc = "alert"]
             /\ IF tasks[t].pids = <<>>
                THEN UNCHANGED <<ingested_events, log>>
                ELSE /\ ingested_events' = [ingested_events EXCEPT
                          ![e] = LinkedRow(@, tasks[t].pids)]
                     /\ log' = Logged(t, <<"backfill">>)
  /\ UNCHANGED <<cfg, satellite_observations, weather_observations, locations,
                 disasters, predictions, alert_notifications,
                 external_data_sources, is_running, loop_tasks, ml_service,
                 cur, uuids, polls, starts, stops, budget, serviceVars>>

\* --------------------------------------------------------- alert dispatcher
\* _get_ngo_recipients returns the users with role ngo or admin, here
\* numbered from 1; the odd-numbered ones have an email address.
HasEmail(r) == r % 2 = 1

\* A dispatcher without the severity gate.
GateOpen(severity) == severity \in Severity

\* evaluate_and_notify's gate.
Gate(severity) == severity = cfg.ALERT_SEVERITY_THRESHOLD

\* evaluate_and_notify up to the loop over the recipients.
EvaluateAndNotify(t, users, outcome) ==
  /\ cur = t /\ tasks[t].pc = "alert"
  /\ LET ev == CurrentEvent(t)
     IN /\ outcome \in (IF Gate(ev.severity) THEN {"ok", "raise"} ELSE {"ok"})
        /\ users \in (IF Gate(ev.severity) /\ outcome = "ok"
                      THEN 0..NumRecipients ELSE {0})
        /\ Spend(Cost(outcome))
        /\ tasks' = [tasks EXCEPT
             ![t].pc = IF ~Gate(ev.severity) THEN "next"
                       ELSE IF outcome = "raise" THEN "raised"
                       ELSE IF users = 0 THEN "next"
                       ELSE "send",
             ![t].recipients = users,
             ![t].rix = IF users = 0 THEN 0 ELSE 1]
  /\ log' = Logged(t, <<"alert">>)
  /\ UNCHANGED <<cfg, storeVars, is_running, loop_tasks, ml_service, cur,
                 uuids, polls, starts, stops, budget, serviceVars>>

Notification(t, channel, status) ==
  [event_id |-> tasks[t].events[tasks[t].idx],
   disaster_id |-> tasks[t].did,
   prediction_id |-> IF tasks[t].pids = <<>> THEN NoId ELSE tasks[t].pids[1],
   recipient |-> tasks[t].rix,
   severity |-> CurrentEvent(t).severity,
   channel |-> channel, status |-> status,
   sent_at |-> (status = "sent")]

\* The end of _send: the notification is inserted.  The insert is not
\* guarded, so its exception leaves _send and evaluate_and_notify.
Persist(t, notif, outcome) ==
  IF outcome = "ok"
  THEN /\ alert_notifications' = Append(alert_notifications, notif)
       /\ tasks' = [tasks EXCEPT
            ![t].rix = @ + 1,
            ![t].pc = IF tasks[t].rix + 1 <= tasks[t].recipients THEN "send"
                      ELSE "next"]
  ELSE /\ UNCHANGED alert_notifications
       /\ tasks' = [tasks EXCEPT ![t].pc = "raised"]

\* _send for one recipient: with an email address and a SendGrid key the
\* coroutine suspends in the HTTP post, otherwise the alert is only logged.
Send(t, outcome) ==
  /\ cur = t /\ tasks[t].pc = "send"
  /\ IF HasEmail(tasks[t].rix) /\ cfg.SENDGRID_API_KEY
     THEN /\ outcome = "ok"
          /\ tasks' = [tasks EXCEPT ![t].pc = "email"]
          /\ cur' = NoTask
          /\ UNCHANGED <<alert_notifications, faults>>
     ELSE /\ outcome \in {"ok", "raise"}
          /\ Spend(Cost(outcome))
          /\ Persist(t, Notification(t, "log", "logged"), outcome)
          /\ UNCHANGED cur
  /\ UNCHANGED <<cfg, ingested_events, satellite_observations,
                 weather_observations, locations, disasters, predictions,
                 external_data_sources, is_running, loop_tasks, ml_service,
                 uuids, polls, starts, log, stops, budget, serviceVars>>

\* _send_email returned "sent" or "failed" (it catches its own errors).
EmailReturn(t, status, outcome) ==
  /\ cur = NoTask
  /\ tasks[t].pc = "email" /\ ~tasks[t].cancelled
  /\ status \in {"sent", "failed"}
  /\ outcome \in {"ok", "raise"}
  /\ Spend(Cost(outcome))
  /\ Persist(t, Notification(t, "email", status), outcome)
  /\ cur' = t
  /\ UNCHANGED <<cfg, ingested_events, satellite_observations,
                 weather_observations, locations, disasters, predictions,
                 external_data_sources, is_running, loop_tasks, ml_service,
                 uuids, polls, starts, log, stops, budget, serviceVars>>

\* -------------------------------------------------------------------- Next
Outcomes == {"ok", "norow", "raise"}

TaskIds == DOMAIN tasks

\* The coroutine that holds the event loop, if any.
Running == IF cur = NoTask THEN {} ELSE {cur}

Next ==
  \/ Lifespan
  \/ StartRoute
  \/ StopRoute
  \/ \E t \in TaskIds : StopResume(t)
  \/ CancelDelivered
  \/ \E t \in TaskIds : LoopExit(t)
  \/ \E t \in TaskIds : LoopPoll(t)
  \/ \E feed \in Feeds : ManualPoll(feed)
  \/ \E t \in TaskIds, upstream \in {"ok", "fail"} : FetchReturn(t, upstream)
  \/ \E t \in Running, o \in Outcomes :
       \E items \in Batches(tasks[t].feed) : DeduplicateAndStore(t, items, o)
  \/ \E t \in Running, o \in Outcomes :
       \E items \in Batches("firms") : StoreObservations(t, items, o)
  \/ \E t \in Running, n \in 0..1 : WeatherStore(t, n)
  \/ \E t \in Running, o \in Outcomes, e \in SUBSET ErrorLengths :
       PollDone(t, e, o)
  \/ \E t \in Running : NextEvent(t)
  \/ \E t \in Running, pick \in 0..uuids, selO, insO, disO \in Outcomes :
       AutoCreateDisaster(t, pick, selO, insO, disO)
  \/ \E t \in Running, o \in Outcomes : MarkProcessed(t, o)
  \/ \E t \in Running, selO, weatherO \in Outcomes :
       \E predO \in [1..3 -> {"ok", "raise"}] :
         RunBatchPredictions(t, selO, weatherO, predO)
  \/ \E t \in Running, o \in Outcomes : BackFill(t, o)
  \/ \E t \in Running, users \in 0..NumRecipients, o \in Outcomes :
       EvaluateAndNotify(t, users, o)
  \/ \E t \in Running, o \in Outcomes : Send(t, o)
  \/ \E t \in TaskIds, status \in {"sent", "failed"}, o \in Outcomes :
       EmailReturn(t, status, o)

Spec == Init /\ [][Next]_vars

\* ================================================================= NLP triage
\* A text is the sequence of its lower-cased tokens, the words and numerals
\* that single spaces separate.  A regular expression of the source is the
\* set of token patterns it accepts; a token pattern is a sequence of sets
\* of tokens, one set per position.  Open parts of an expression (\d+, \w*)
\* stand for the tokens of the vocabulary they accept.
Vocabulary ==
  {"yes", "no", "ok", "hello", "3", "12", "wound", "trapped", "eat", "water",
   "need", "people", "pregnant", "heart", "medicine"}

\* int(): the numerals of the vocabulary and their values.
Numerals == {"3", "12"}

IntOf(tok) == IF tok = "3" THEN 3 ELSE 12

\* \d{2,}
LongNumerals == {"12"}

MatchAt(pattern, text, i) ==
  /\ i + Len(pattern) - 1 <= Len(text)
  /\ \A k \in 1..Len(pattern) : text[i + k - 1] \in pattern[k]

\* The start positions of the matches of an expression (re.finditer).
Matches(patterns, text) ==
  {i \in 1..Len(text) : \E p \in patterns : MatchAt(p, text, i)}

MinOf(S) == CHOOSE x \in S : \A y \in S : x <= y

MaxOf(S) == CHOOSE x \in S : \A y \in S : x >= y

\* match.group(0) of the match that starts at position i.
Group0(patterns, text, i) ==
  LET p == CHOOSE q \in patterns : MatchAt(q, text, i)
  IN SubSeq(text, i, i + Len(p) - 1)

\* URGENCY_RULES, in the order of the source: (pattern, label, boost).
URGENCY_RULES ==
  <<[label |-> "unconscious", boost |-> 3, patterns |->
       {<<{"unconscious", "unresponsive"}>>, <<{"not"}, {"breathing"}>>,
        <<{"cardiac"}, {"arrest"}>>}],
    [label |-> "trapped", boost |-> 3, patterns |->
       {<<{"trapped", "pinned", "buried"}>>, <<{"stuck"}, {"under"}>>}],
    [label |-> "severe_bleeding", boost |-> 3, patterns |->
       {<<{"hemorrhag"}>>, <<{"heavy"}, {"bleeding"}>>,
        <<{"severe"}, {"bleed"}>>, <<{"blood"}, {"loss"}>>}],
    [label |-> "drowning", boost |-> 3, patterns |->
       {<<{"drowning", "submerged"}>>}],
    [label |-> "crush_injury", boost |-> 3, patterns |->
       {<<{"crush", "crushed", "crushing"}>>}],
    [label |-> "immobile", boost |-> 2, patterns |->
       {<<{"paralyz"}>>, <<{"not"}, {"moving"}>>}],
    [label |-> "infant", boost |-> 2, patterns |->
       {<<{"infant", "newborn", "baby", "toddler"}>>}],
    [label |-> "elderly", boost |-> 2, patterns |->
       {<<{"elderly", "senior", "aged"}>>,
        <<{"old"}, {"man", "woman", "person"}>>}],
    [label |-> "pregnant", boost |-> 2, patterns |->
       {<<{"pregnant", "expecting"}>>}],
    [label |-> "disabled", boost |-> 2, patterns |->
       {<<{"disabled", "wheelchair", "disability"}>>}],
    [label |-> "prolonged_deprivation", boost |-> 2, patterns |->
       {<<{"no"}, {"water", "food", "medicine"}, {"for"}, Numerals,
          {"day", "days"}>>}],
    [label |-> "dehydration_starvation", boost |-> 2, patterns |->
       {<<{"dehydrat", "dehydrated", "dehydration", "starv", "starved",
           "starving", "starvation"}>>}],
    [label |-> "no_water", boost |-> 1, patterns |->
       {<<{"no"}, {"water"}>>, <<{"no"}, {"clean"}, {"water"}>>}],
    [label |-> "no_food", boost |-> 1, patterns |->
       {<<{"hungry", "starving"}>>, <<{"no"}, {"food"}>>}],
    [label |-> "no_shelter", boost |-> 1, patterns |->
       {<<{"homeless", "exposed"}>>, <<{"no"}, {"shelter"}>>}],
    [label |-> "no_medicine", boost |-> 1, patterns |->
       {<<{"no"}, {"medicine", "medication"}>>,
        <<{"out"}, {"of"}, {"med"}>>}],
    [label |-> "injury", boost |-> 1, patterns |->
       {<<{"bleeding", "wound", "injur", "fracture"}>>,
        <<{"broken"}, {"bone"}>>}],
    [label |-> "infection", boost |-> 1, patterns |->
       {<<{"infection", "fever", "sepsis"}>>}],
    [label |-> "chronic_medical", boost |-> 1, patterns |->
       {<<{"diabetes", "diabets", "insulin"}>>}],
    [label |-> "respiratory", boost |-> 1, patterns |->
       {<<{"asthma", "inhaler"}>>, <<{"breathing"}, {"difficult"}>>}],
    [label |-> "cardiac_symptom", boost |-> 2, patterns |->
       {<<{"heart"}>>, <<{"chest"}, {"pain"}>>}],
    [label |-> "seizure", boost |-> 2, patterns |->
       {<<{"seizure", "convuls"}>>}],
    [label |-> "large_group", boost |-> 1, patterns |->
       {<<LongNumerals, {"people", "persons", "families"}>>,
        <<LongNumerals, {"family"}, {"members"}>>}],
    [label |-> "children_present", boost |-> 1, patterns |->
       {<<{"children", "kids"}>>}]>>

PRIORITY_LEVELS == <<"low", "medium", "high", "critical">>

\* list.sort(key=severity_boost, reverse=True): stable, highest boost first.
RECURSIVE SortByBoost(_, _)
SortByBoost(signals, top) ==
  IF top < 0 THEN <<>>
  ELSE SelectSeq(signals, LAMBDA s : s.severity_boost = top)
         \o SortByBoost(signals, top - 1)

\* The signals in the order of the rule table, not sorted.
ExtractInRuleOrder(text) ==
  LET hit == SelectSeq(URGENCY_RULES,
                       LAMBDA r : Matches(r.patterns, text) # {})
  IN [k \in DOMAIN hit |->
        [keyword |-> Group0(hit[k].patterns, text,
                            MinOf(Matches(hit[k].patterns, text))),
         label |-> hit[k].label,
         severity_boost |-> hit[k].boost,
         offset |-> MinOf(Matches(hit[k].patterns, text))]]

\* extract_urgency_signals: the first match of every rule that matches (the
\* labels of the rules are distinct), sorted.
ExtractUrgencySignals(text) ==
  LET signals(hit) ==
        [k \in DOMAIN hit |->
           LET i == MinOf(Matches(hit[k].patterns, text))
           IN [keyword |-> Group0(hit[k].patterns, text, i),
               label |-> hit[k].label,
               severity_boost |-> hit[k].boost,
               offset |-> i]]
  IN SortByBoost(signals(SelectSeq(URGENCY_RULES,
                                   LAMBDA r : Matches(r.patterns, text) # {})),
                 MaxOf({URGENCY_RULES[k].boost : k \in DOMAIN URGENCY_RULES}))

\* PRIORITY_LEVELS.index, counted from 1; an unknown level counts as medium.
IndexOf(priority) ==
  IF \E i \in DOMAIN PRIORITY_LEVELS : PRIORITY_LEVELS[i] = priority
  THEN CHOOSE i \in DOMAIN PRIORITY_LEVELS : PRIORITY_LEVELS[i] = priority
  ELSE 2

\* An escalation by the smallest boost instead of the largest.
EscalateByLeast(base_priority, signals) ==
  IF signals = <<>>
  THEN [priority |-> base_priority, escalated |-> FALSE]
  ELSE LET base_idx == IndexOf(base_priority)
           boost == MinOf({signals[k].severity_boost : k \in DOMAIN signals})
           new_idx == MinOf({base_idx + boost, Len(PRIORITY_LEVELS)})
       IN [priority |-> PRIORITY_LEVELS[new_idx],
           escalated |-> new_idx > base_idx]

\* An escalation that is reported whenever there are signals.
EscalateReported(base_priority, signals) ==
  IF signals = <<>>
  THEN [priority |-> base_priority, escalated |-> FALSE]
  ELSE LET base_idx == IndexOf(base_priority)
           max_boost ==
             MaxOf({signals[k].severity_boost : k \in DOMAIN signals})
           new_idx == MinOf({base_idx + max_boost, Len(PRIORITY_LEVELS)})
       IN [priority |-> PRIORITY_LEVELS[new_idx], escalated |-> TRUE]

\* escalate_priority(base_priority, signals) -> (new_priority, escalated)
EscalatePriority(base_priority, signals) ==
  IF signals = <<>>
  THEN [priority |-> base_priority, escalated |-> FALSE]
  ELSE LET base_idx == IndexOf(base_priority)
           max_boost ==
             MaxOf({signals[k].severity_boost : k \in DOMAIN signals})
           new_idx == MinOf({base_idx + max_boost, Len(PRIORITY_LEVELS)})
       IN [priority |-> PRIORITY_LEVELS[new_idx],
           escalated |-> new_idx > base_idx]

\* Scores are counted in 180ths, so that a third of 0.6 and of 1.0, 0.3, 0.8,
\* 0.85 and 0.9 are whole numbers.
ScoreOne == 180

Score(tenths, hundredths) ==
  (ScoreOne * (10 * tenths + hundredths)) \div 100

Need == {"need", "needs"}

Supplies == {"food", "water", "medicine"}

\* PHRASE_RULES, in the order of the source: (pattern, type, confidence).
PHRASE_RULES ==
  <<[rtype |-> "Water", conf |-> Score(9, 0), patterns |->
       {<<Need, {"water"}>>, <<Need, {"clean"}, {"water"}>>}],
    [rtype |-> "Food", conf |-> Score(9, 0), patterns |->
       {<<Need, {"food"}>>}],
    [rtype |-> "Medical", conf |-> Score(9, 0), patterns |->
       {<<{"medical", "firstaid", "first-aid"},
          {"help", "attention", "care", "supplies"}>>,
        <<{"first"}, {"aid"}, {"help", "attention", "care", "supplies"}>>}],
    [rtype |-> "Shelter", conf |-> Score(9, 0), patterns |->
       {<<Need, {"shelter"}>>, <<Need, {"a"}, {"shelter"}>>}],
    [rtype |-> "Evacuation", conf |-> Score(9, 0), patterns |->
       {<<Need, {"evacuat", "evacuate", "evacuated", "evacuation"}>>,
        <<Need, {"to"}, {"be"},
          {"evacuat", "evacuate", "evacuated", "evacuation"}>>}],
    [rtype |-> "Clothing", conf |-> Score(8, 5), patterns |->
       {<<Need, {"cloth", "clothes", "clothing"}>>}],
    [rtype |-> "Shelter", conf |-> Score(8, 5), patterns |->
       {<<{"house", "home", "building"},
          {"collapse", "collapsed", "destroy", "destroyed", "damage",
           "damaged"}>>}],
    [rtype |-> "Food", conf |-> Score(8, 5), patterns |->
       {<<{"run", "running"}, {"out"}, {"of"}, Supplies>>}],
    [rtype |-> "Food", conf |-> Score(8, 5), patterns |->
       {<<{"no", "without"}, Supplies>>,
        <<{"no", "without"}, {"access"}, {"to"}, Supplies>>}],
    [rtype |-> "Financial Aid", conf |-> Score(9, 0), patterns |->
       {<<{"financial", "monetary"},
          {"help", "aid", "assistance", "support"}>>}]>>

\* RESOURCE_KEYWORDS, in the order of the source.  A keyword kw is searched as
\* \bkw\w*\b: its last word also accepts the words of the vocabulary that
\* begin with it.  len is len(kw).
RESOURCE_KEYWORDS ==
  <<[rtype |-> "Food", keywords |->
        <<[len |-> 4, pattern |-> <<{"food"}>>],
          [len |-> 4, pattern |-> <<{"meal"}>>],
          [len |-> 4, pattern |-> <<{"rice"}>>],
          [len |-> 5, pattern |-> <<{"bread"}>>],
          [len |-> 6, pattern |-> <<{"ration"}>>],
          [len |-> 9, pattern |-> <<{"nutrition"}>>],
          [len |-> 6, pattern |-> <<{"hungry"}>>],
          [len |-> 8, pattern |-> <<{"starving"}>>],
          [len |-> 3, pattern |-> <<{"eat"}>>],
          [len |-> 4, pattern |-> <<{"cook"}>>],
          [len |-> 6, pattern |-> <<{"canned"}>>],
          [len |-> 8, pattern |-> <<{"supplies"}>>],
          [len |-> 7, pattern |-> <<{"grocery"}>>]>>],
    [rtype |-> "Water", keywords |->
        <<[len |-> 5, pattern |-> <<{"water"}>>],
          [len |-> 5, pattern |-> <<{"drink"}>>],
          [len |-> 6, pattern |-> <<{"thirst"}>>],
          [len |-> 8, pattern |-> <<{"dehydrat"}>>],
          [len |-> 5, pattern |-> <<{"purif"}>>],
          [len |-> 11, pattern |-> <<{"clean"}, {"water"}>>],
          [len |-> 13, pattern |-> <<{"bottled"}, {"water"}>>],
          [len |-> 7, pattern |-> <<{"gallons"}>>]>>],
    [rtype |-> "Medical", keywords |->
        <<[len |-> 5, pattern |-> <<{"medic", "medicine"}>>],
          [len |-> 6, pattern |-> <<{"doctor"}>>],
          [len |-> 5, pattern |-> <<{"nurse"}>>],
          [len |-> 9, pattern |-> <<{"ambulance"}>>],
          [len |-> 8, pattern |-> <<{"hospital"}>>],
          [len |-> 9, pattern |-> <<{"first"}, {"aid"}>>],
          [len |-> 7, pattern |-> <<{"bandage"}>>],
          [len |-> 7, pattern |-> <<{"insulin"}>>],
          [len |-> 7, pattern |-> <<{"inhaler"}>>],
          [len |-> 8, pattern |-> <<{"medicine"}>>],
          [len |-> 4, pattern |-> <<{"drug"}>>],
          [len |-> 6, pattern |-> <<{"pharma"}>>],
          [len |-> 5, pattern |-> <<{"wound"}>>],
          [len |-> 8, pattern |-> <<{"bleeding"}>>],
          [len |-> 6, pattern |-> <<{"injury"}>>],
          [len |-> 8, pattern |-> <<{"fracture"}>>],
          [len |-> 4, pattern |-> <<{"pain"}>>],
          [len |-> 5, pattern |-> <<{"fever"}>>],
          [len |-> 9, pattern |-> <<{"infection"}>>],
          [len |-> 8, pattern |-> <<{"antibiot"}>>]>>],
    [rtype |-> "Shelter", keywords |->
        <<[len |-> 7, pattern |-> <<{"shelter"}>>],
          [len |-> 4, pattern |-> <<{"tent"}>>],
          [len |-> 4, pattern |-> <<{"tarp"}>>],
          [len |-> 7, pattern |-> <<{"blanket"}>>],
          [len |-> 4, pattern |-> <<{"roof"}>>],
          [len |-> 7, pattern |-> <<{"housing"}>>],
          [len |-> 5, pattern |-> <<{"sleep"}>>],
          [len |-> 4, pattern |-> <<{"camp"}>>],
          [len |-> 6, pattern |-> <<{"refuge"}>>],
          [len |-> 5, pattern |-> <<{"cover"}>>],
          [len |-> 8, pattern |-> <<{"mattress"}>>]>>],
    [rtype |-> "Clothing", keywords |->
        <<[len |-> 5, pattern |-> <<{"cloth"}>>],
          [len |-> 5, pattern |-> <<{"shirt"}>>],
          [len |-> 5, pattern |-> <<{"pants"}>>],
          [len |-> 6, pattern |-> <<{"jacket"}>>],
          [len |-> 4, pattern |-> <<{"coat"}>>],
          [len |-> 4, pattern |-> <<{"shoe"}>>],
          [len |-> 4, pattern |-> <<{"warm"}>>],
          [len |-> 11, pattern |-> <<{"winter"}, {"gear"}>>],
          [len |-> 6, pattern |-> <<{"diaper"}>>]>>],
    [rtype |-> "Evacuation", keywords |->
        <<[len |-> 7, pattern |-> <<{"evacuat"}>>],
          [len |-> 9, pattern |-> <<{"transport"}>>],
          [len |-> 6, pattern |-> <<{"rescue"}>>],
          [len |-> 10, pattern |-> <<{"helicopter"}>>],
          [len |-> 4, pattern |-> <<{"boat"}>>],
          [len |-> 7, pattern |-> <<{"vehicle"}>>],
          [len |-> 7, pattern |-> <<{"trapped"}>>],
          [len |-> 8, pattern |-> <<{"stranded"}>>],
          [len |-> 7, pattern |-> <<{"airlift"}>>]>>],
    [rtype |-> "Volunteers", keywords |->
        <<[len |-> 9, pattern |-> <<{"volunteer"}>>],
          [len |-> 6, pattern |-> <<{"helper"}>>],
          [len |-> 8, pattern |-> <<{"manpower"}>>],
          [len |-> 14, pattern |-> <<{"people"}, {"to"}, {"help"}>>],
          [len |-> 10, pattern |-> <<{"assistance"}>>],
          [len |-> 5, pattern |-> <<{"hands"}>>]>>],
    [rtype |-> "Financial Aid", keywords |->
        <<[len |-> 5, pattern |-> <<{"money"}>>],
          [len |-> 4, pattern |-> <<{"cash"}>>],
          [len |-> 4, pattern |-> <<{"fund"}>>],
          [len |-> 9, pattern |-> <<{"financial"}>>],
          [len |-> 8, pattern |-> <<{"donation"}>>],
          [len |-> 7, pattern |-> <<{"payment"}>>]>>]>>

RECURSIVE SumOf(_)
SumOf(s) == IF s = <<>> THEN 0 ELSE Head(s) + SumOf(Tail(s))

\* Pass 2 of classify_resource_type for one type: a third of the sum, over
\* the keywords, of matches * (1.0 if len(kw) > 4 else 0.6), at most 1.0.
KeywordScore(keywords, text) ==
  LET thirds == [k \in DOMAIN keywords |->
                   Cardinality(Matches({keywords[k].pattern}, text))
                     * (IF keywords[k].len > 4 THEN Score(10, 0) \div 3
                        ELSE Score(6, 0) \div 3)]
  IN MinOf({SumOf(thirds), ScoreOne})

\* scores[rtype] = max(scores.get(rtype, 0), score): the dict keeps the
\* position of a key it already has.
Put(scores, rtype, score) ==
  IF \E i \in DOMAIN scores : scores[i].rtype = rtype
  THEN [i \in DOMAIN scores |->
          IF scores[i].rtype = rtype
          THEN [scores[i] EXCEPT !.score = MaxOf({@, score})]
          ELSE scores[i]]
  ELSE Append(scores, [rtype |-> rtype, score |-> score])

RECURSIVE PhrasePass(_, _, _)
PhrasePass(scores, k, text) ==
  IF k > Len(PHRASE_RULES) THEN scores
  ELSE PhrasePass(
         IF Matches(PHRASE_RULES[k].patterns, text) # {}
         THEN Put(scores, PHRASE_RULES[k].rtype, PHRASE_RULES[k].conf)
         ELSE scores,
         k + 1, text)

RECURSIVE KeywordPass(_, _, _)
KeywordPass(scores, k, text) ==
  IF k > Len(RESOURCE_KEYWORDS) THEN scores
  ELSE KeywordPass(
         LET kw_score == KeywordScore(RESOURCE_KEYWORDS[k].keywords, text)
         IN IF kw_score > 0
            THEN Put(scores, RESOURCE_KEYWORDS[k].rtype, kw_score)
            ELSE scores,
         k + 1, text)

\* sorted(scores.items(), key=score, reverse=True): stable.
RECURSIVE SortByScore(_)
SortByScore(scores) ==
  IF scores = <<>> THEN <<>>
  ELSE LET top == MaxOf({scores[i].score : i \in DOMAIN scores})
           first == MinOf({i \in DOMAIN scores : scores[i].score = top})
       IN <<scores[first]>>
            \o SortByScore([i \in 1..(Len(scores) - 1) |->
                              IF i < first THEN scores[i] ELSE scores[i + 1]])

Custom == [types |-> <<"Custom">>,
           scores |-> <<[rtype |-> "Custom", score |-> Score(3, 0)]>>]

\* A classification that returns every type that scored, whatever its score.
ClassifyAllScored(text) ==
  LET Ranked(sorted_types) ==
        IF sorted_types = <<>> THEN Custom
        ELSE [types |-> [i \in DOMAIN sorted_types |-> sorted_types[i].rtype],
              scores |-> sorted_types]
  IN Ranked(SortByScore(KeywordPass(PhrasePass(<<>>, 1, text), 1, text)))

\* classify_resource_type(text) -> (primary_types, scores)
ClassifyResourceType(text) ==
  IF text = <<>> THEN Custom
  ELSE LET Ranked(sorted_types) ==
             LET over == SelectSeq(sorted_types,
                                   LAMBDA x : x.score >= Score(3, 0))
                 primary_types ==
                   IF over = <<>> THEN <<sorted_types[1]>> ELSE over
             IN IF sorted_types = <<>> THEN Custom
                ELSE [types |-> [i \in DOMAIN primary_types |->
                                   primary_types[i].rtype],
                      scores |-> sorted_types]
       IN Ranked(SortByScore(KeywordPass(PhrasePass(<<>>, 1, text), 1, text)))

QuantityCap == 9999

Counted ==
  {"people", "persons", "families", "adults", "children", "kids", "bottle",
   "bottles", "gallon", "gallons", "liter", "liters", "litre", "litres",
   "pack", "packs", "box", "boxes", "kit", "kits", "unit", "units", "bag",
   "bags", "can", "cans", "mouth", "mouths"}

\* The patterns of estimate_quantity, each with the position of group 1.
QuantityPatterns ==
  {[group |-> 1, pattern |-> <<Numerals, Counted>>],
   [group |-> 1, pattern |-> <<Numerals, {"family"}, {"member", "members"}>>],
   [group |-> 1, pattern |-> <<Numerals, {"of"}, {"us", "them"}>>],
   [group |-> 2, pattern |-> <<{"need"}, Numerals>>],
   [group |-> 3, pattern |-> <<{"family"}, {"of"}, Numerals>>]}

\* estimate_quantity(text): the largest number found in a counting context.
EstimateQuantity(text) ==
  LET found == {IntOf(text[i + q.group - 1]) :
                  <<q, i>> \in {<<r, j>> \in QuantityPatterns
                                               \X (1..Len(text)) :
                                  MatchAt(r.pattern, text, j)}}
  IN MinOf({MaxOf(found \cup {1}), QuantityCap})

\* round((type_conf + signal_conf) / 2, 3), in thousandths.
Confidence(scores, signals) ==
  LET type_conf == MaxOf({scores[i].score : i \in DOMAIN scores})
      signal_conf == IF signals = <<>> THEN Score(4, 0)
                     ELSE MinOf({Len(signals) * Score(1, 5) + Score(4, 0),
                                 Score(9, 5)})
  IN (1000 * (type_conf + signal_conf) + ScoreOne) \div (2 * ScoreOne)

\* classify_request(description, user_priority)
ClassifyRequest(description, user_priority) ==
  LET Result(signals, classified) ==
        LET escalation == EscalatePriority(user_priority, signals)
        IN [resource_types |-> classified.types,
            resource_type_scores |-> classified.scores,
            recommended_priority |-> escalation.priority,
            original_priority |-> user_priority,
            priority_was_escalated |-> escalation.escalated,
            estimated_quantity |-> EstimateQuantity(description),
            urgency_signals |->
              [k \in DOMAIN signals |->
                 [keyword |-> signals[k].keyword,
                  label |-> signals[k].label,
                  severity_boost |-> signals[k].severity_boost]],
            confidence |-> Confidence(classified.scores, signals)]
  IN Result(ExtractUrgencySignals(description),
            ClassifyResourceType(description))

\* ==================================================================== chatbot
MaxSessions == 1
MaxTurns == 9

SessionIds == 1..MaxSessions

\* What the users say.
Messages == {<<"yes">>, <<"no">>, <<"3", "wound">>}

GREETING == "greeting"
ASK_SITUATION == "ask_situation"
ASK_RESOURCE == "ask_resource"
ASK_QUANTITY == "ask_quantity"
ASK_LOCATION == "ask_location"
ASK_PEOPLE == "ask_people"
ASK_MEDICAL == "ask_medical"
CONFIRM == "confirm"
SUBMITTED == "submitted"

ConvState ==
  {GREETING, ASK_SITUATION, ASK_RESOURCE, ASK_QUANTITY, ASK_LOCATION,
   ASK_PEOPLE, ASK_MEDICAL, CONFIRM, SUBMITTED}

\* ExtractedData(): the defaults of the dataclass; confidence in thousandths.
ExtractedData ==
  [situation_description |-> <<>>,
   resource_types |-> <<>>,
   resource_type_scores |-> <<>>,
   quantity |-> 1,
   location |-> <<>>,
   people_count |-> 1,
   has_medical_needs |-> FALSE,
   medical_details |-> <<>>,
   urgency_signals |-> <<>>,
   recommended_priority |-> "medium",
   priority_escalated |-> FALSE,
   confidence |-> 500,
   raw_messages |-> <<>>]

\* ExtractedData.to_dict: every field but raw_messages.
ToDict(extracted) ==
  [k \in DOMAIN extracted \ {"raw_messages"} |-> extracted[k]]

\* ChatSession(session_id)
ChatSession ==
  [state |-> GREETING, messages |-> <<>>, extracted |-> ExtractedData]

Closing == {".", "!"}

YesWords ==
  {"yes", "yeah", "yep", "yup", "correct", "sure", "ok", "okay", "y",
   "confirm", "right"}

NoWords == {"no", "nah", "nope", "wrong", "incorrect", "n", "reset"}

\* An expression anchored at both ends: a pattern, then only closing marks.
FullMatch(patterns, text) ==
  \E p \in patterns :
    /\ MatchAt(p, text, 1)
    /\ \A i \in (Len(p) + 1)..Len(text) : text[i] \in Closing

\* A detector that takes every answer for an affirmation.
DetectYesAlways(text) == Len(text) >= 0

\* _detect_yes
DetectYes(text) ==
  FullMatch({<<YesWords>>,
             <<{"that", "thats", "that's", "that'"}, {"right", "correct"}>>},
            text)

\* _detect_no
DetectNo(text) ==
  FullMatch({<<NoWords>>, <<{"not"}, {"really"}>>, <<{"start"}, {"over"}>>},
            text)

NoNumber == -1

\* _extract_number: the first integer of the text, or None.
ExtractNumber(text) ==
  LET at == Matches({<<Numerals>>}, text)
  IN IF at = {} THEN NoNumber ELSE IntOf(text[MinOf(at)])

MedicalWords ==
  {"injur", "wound", "bleed", "fracture", "medic", "sick", "fever", "pain",
   "diabet", "asthma", "chronic", "surgery", "pregnant", "disability"}

\* A detector that finds medical content nowhere.
DetectMedicalNever(text) == Len(text) < 0

\* _detect_medical: one of the words, standing alone.
DetectMedical(text) == Matches({<<MedicalWords>>}, text) # {}

\* " ".join(raw_messages)
RECURSIVE Join(_)
Join(texts) == IF texts = <<>> THEN <<>> ELSE Head(texts) \o Join(Tail(texts))

\* A reply that opens a submitted session again.
ReplyReopening(session, reply) ==
  [session |-> IF reply = "already_submitted"
               THEN [session EXCEPT !.state = GREETING] ELSE session,
   reply |-> reply]

Reply(session, reply) == [session |-> session, reply |-> reply]

\* _handle_situation
HandleSituation(session, text) ==
  LET Classified(classification, qty) ==
        LET found == /\ classification.resource_types # <<>>
                     /\ classification.resource_types # <<"Custom">>
        IN Reply([session EXCEPT
                    !.state = ASK_RESOURCE,
                    !.extracted.situation_description = text,
                    !.extracted.urgency_signals =
                       classification.urgency_signals,
                    !.extracted.recommended_priority =
                       classification.recommended_priority,
                    !.extracted.priority_escalated =
                       classification.priority_was_escalated,
                    !.extracted.confidence = classification.confidence,
                    !.extracted.resource_types =
                       classification.resource_types,
                    !.extracted.resource_type_scores =
                       classification.resource_type_scores,
                    !.extracted.quantity = IF qty > 1 THEN qty ELSE @],
                 IF found THEN "RESOURCE_CONFIRM" ELSE "RESOURCE_ASK")
  IN Classified(ClassifyRequest(Join(session.extracted.raw_messages),
                                "medium"),
                EstimateQuantity(text))

\* direct_map of _handle_resource, in the order of the source.  "key in
\* text_lower" is a substring test; no word of the vocabulary contains a key
\* without being that key.
DirectMap ==
  <<[key |-> "food", rtype |-> "Food"],
    [key |-> "water", rtype |-> "Water"],
    [key |-> "medical", rtype |-> "Medical"],
    [key |-> "shelter", rtype |-> "Shelter"],
    [key |-> "clothing", rtype |-> "Clothing"],
    [key |-> "clothes", rtype |-> "Clothing"],
    [key |-> "evacuation", rtype |-> "Evacuation"],
    [key |-> "volunteers", rtype |-> "Volunteers"],
    [key |-> "financial", rtype |-> "Financial Aid"],
    [key |-> "money", rtype |-> "Financial Aid"]>>

Mapped(text) ==
  SelectSeq(DirectMap, LAMBDA m : Matches({<<{m.key}>>}, text) # {})

\* _handle_resource
HandleResource(session, text) ==
  LET Updated(classified, mapped) ==
        IF classified.types # <<>> /\ classified.types # <<"Custom">>
        THEN Reply([session EXCEPT
                      !.state = ASK_QUANTITY,
                      !.extracted.resource_types = classified.types,
                      !.extracted.resource_type_scores = classified.scores],
                   "updated_types")
        ELSE IF mapped # <<>>
        THEN Reply([session EXCEPT
                      !.state = ASK_QUANTITY,
                      !.extracted.resource_types = <<mapped[1].rtype>>,
                      !.extracted.resource_type_scores =
                         <<[rtype |-> mapped[1].rtype,
                            score |-> Score(8, 0)]>>],
                   "updated_types")
        ELSE Reply(session, "retry")
  IN IF DetectYes(text) /\ session.extracted.resource_types # <<>>
     THEN Reply([session EXCEPT !.state = ASK_QUANTITY], "QUANTITY_ASK")
     ELSE Updated(ClassifyResourceType(text), Mapped(text))

\* (\d+)\s*(people|persons?|family members?|of us)
PeopleMatch(text) ==
  Matches({<<Numerals, {"people", "person", "persons"}>>,
           <<Numerals, {"family"}, {"member", "members"}>>,
           <<Numerals, {"of"}, {"us"}>>}, text)

\* _handle_quantity: "if qty" is false for None and for 0.
HandleQuantity(session, text) ==
  LET qty == ExtractNumber(text)
  IN Reply([session EXCEPT
              !.state = ASK_LOCATION,
              !.extracted.quantity =
                 IF qty # NoNumber /\ qty # 0
                 THEN MinOf({qty, QuantityCap}) ELSE @,
              !.extracted.people_count =
                 IF PeopleMatch(text) # {}
                 THEN IntOf(text[MinOf(PeopleMatch(text))]) ELSE @],
           "LOCATION_ASK")

\* A location step that goes on to the medical question at once.
HandleLocationSkipsPeople(session, text) ==
  Reply([session EXCEPT !.state = ASK_MEDICAL, !.extracted.location = text],
        "MEDICAL_ASK")

\* _handle_location
HandleLocation(session, text) ==
  Reply([session EXCEPT !.state = ASK_PEOPLE, !.extracted.location = text],
        "PEOPLE_ASK")

\* The re-escalation of _handle_people and _handle_medical: the signals of
\* the answer are appended and the priority is computed anew from medium
\* over all the signals of the session.
\* A re-escalation that looks at the signals of the new message only.
ReescalatedFromNew(extracted, text) ==
  LET Extended(signals) ==
        LET new_signals == [k \in DOMAIN signals |->
                              [keyword |-> signals[k].keyword,
                               label |-> signals[k].label,
                               severity_boost |-> signals[k].severity_boost]]
            all == extracted.urgency_signals \o new_signals
            escalation == EscalatePriority("medium", new_signals)
        IN IF signals = <<>> THEN extracted
           ELSE [extracted EXCEPT
                   !.urgency_signals = all,
                   !.recommended_priority = escalation.priority,
                   !.priority_escalated = escalation.escalated]
  IN Extended(ExtractUrgencySignals(text))

Reescalated(extracted, text) ==
  LET Extended(signals) ==
        LET new_signals == [k \in DOMAIN signals |->
                              [keyword |-> signals[k].keyword,
                               label |-> signals[k].label,
                               severity_boost |-> signals[k].severity_boost]]
            all == extracted.urgency_signals \o new_signals
            escalation == EscalatePriority("medium", all)
        IN IF signals = <<>> THEN extracted
           ELSE [extracted EXCEPT
                   !.urgency_signals = all,
                   !.recommended_priority = escalation.priority,
                   !.priority_escalated = escalation.escalated]
  IN Extended(ExtractUrgencySignals(text))

\* A people step that never asks about medical needs.
HandlePeopleSkipsMedical(session, text) ==
  Reply([session EXCEPT !.state = CONFIRM], "CONFIRM_skipped_medical_ask")

\* _handle_people
HandlePeople(session, text) ==
  LET qty == ExtractNumber(text)
      counted == [session.extracted EXCEPT
                    !.people_count =
                       IF qty # NoNumber /\ qty # 0 THEN qty ELSE @]
      Asked(extracted) ==
        IF DetectMedical(text)
        THEN Reply([session EXCEPT
                      !.state = CONFIRM,
                      !.extracted = [extracted EXCEPT
                                       !.has_medical_needs = TRUE,
                                       !.medical_details = text]],
                   "CONFIRM_skipped_medical_ask")
        ELSE Reply([session EXCEPT
                      !.state = ASK_MEDICAL, !.extracted = extracted],
                   "MEDICAL_ASK")
  IN Asked(Reescalated(counted, text))

\* _handle_medical
HandleMedical(session, text) ==
  IF DetectNo(text)
  THEN Reply([session EXCEPT
                !.state = CONFIRM, !.extracted.has_medical_needs = FALSE],
             "CONFIRM")
  ELSE Reply([session EXCEPT
                !.state = CONFIRM,
                !.extracted =
                   Reescalated([session.extracted EXCEPT
                                  !.has_medical_needs = TRUE,
                                  !.medical_details = text], text)],
             "CONFIRM")

\* A confirm step whose negative answer keeps what was extracted.
HandleConfirmKeepsData(session, text) ==
  IF DetectYes(text)
  THEN Reply([session EXCEPT !.state = SUBMITTED], "SUBMITTED_MSG")
  ELSE IF DetectNo(text)
  THEN Reply([session EXCEPT !.state = ASK_SITUATION], "reset")
  ELSE Reply(session, "awaiting_confirmation")

\* _handle_confirm
HandleConfirm(session, text) ==
  IF DetectYes(text)
  THEN Reply([session EXCEPT !.state = SUBMITTED], "SUBMITTED_MSG")
  ELSE IF DetectNo(text)
  THEN Reply([session EXCEPT
                !.state = ASK_SITUATION, !.extracted = ExtractedData],
             "reset")
  ELSE Reply(session, "awaiting_confirmation")

\* _handle_state
HandleState(session, user_input) ==
  CASE session.state = GREETING ->
         Reply([session EXCEPT !.state = ASK_SITUATION], "GREETING_MSG")
    [] session.state = ASK_SITUATION -> HandleSituation(session, user_input)
    [] session.state = ASK_RESOURCE -> HandleResource(session, user_input)
    [] session.state = ASK_QUANTITY -> HandleQuantity(session, user_input)
    [] session.state = ASK_LOCATION -> HandleLocation(session, user_input)
    [] session.state = ASK_PEOPLE -> HandlePeople(session, user_input)
    [] session.state = ASK_MEDICAL -> HandleMedical(session, user_input)
    [] session.state = CONFIRM -> HandleConfirm(session, user_input)
    [] session.state = SUBMITTED -> Reply(session, "already_submitted")

\* get_or_create_session
GetOrCreateSession(all, session_id) ==
  IF session_id \in DOMAIN all THEN all[session_id] ELSE ChatSession

UserMessage(content) == [role |-> "user", content |-> content]

AssistantMessage(reply) == [role |-> "assistant", content |-> <<reply>>]

\* The turns a session has had.
Turns(session) == Len(session.messages) \div 2

\* process_message(session_id, user_message)
ProcessMessage(session_id, user_message) ==
  LET session == GetOrCreateSession(sessions, session_id)
      stored == [session EXCEPT
                   !.messages = Append(@, UserMessage(user_message)),
                   !.extracted.raw_messages = Append(@, user_message)]
      Answered(handled) ==
        [handled.session EXCEPT
           !.messages = Append(@, AssistantMessage(handled.reply))]
  IN /\ Turns(session) < MaxTurns
     /\ sessions' = [id \in DOMAIN sessions \cup {session_id} |->
                       IF id = session_id
                       THEN Answered(HandleState(stored, user_message))
                       ELSE sessions[id]]
     /\ UNCHANGED notChat

\* delete_session(session_id)
DeleteSession(session_id) ==
  /\ session_id \in DOMAIN sessions
  /\ sessions' = [id \in DOMAIN sessions \ {session_id} |-> sessions[id]]
  /\ UNCHANGED notChat

NextChat ==
  \/ \E id \in SessionIds, m \in Messages : ProcessMessage(id, m)
  \/ \E id \in SessionIds : DeleteSession(id)

\* The chatbot alone: the ingestion pipeline is configured and not started.
InitChat == Init /\ ~cfg.SENDGRID_API_KEY /\ budget.stops + budget.faults = 0

SpecChat == InitChat /\ [][NextChat]_vars

\* Several sessions side by side, each a few messages long.
MaxChatSessions == 2
MaxSessionTurns == 3

ChatSessionIds == 1..MaxChatSessions

\* A delete_session that always reports success.
DeleteSessionCallTrue(session_id) ==
  /\ sessions' = [id \in DOMAIN sessions \ {session_id} |-> sessions[id]]
  /\ delete_returned' = <<[session_id |-> session_id, returned |-> TRUE]>>
  /\ UNCHANGED notSessions

\* delete_session: _sessions.pop(session_id, None) is not None.
DeleteSessionCall(session_id) ==
  /\ sessions' = [id \in DOMAIN sessions \ {session_id} |-> sessions[id]]
  /\ delete_returned' =
       <<[session_id |-> session_id,
          returned |-> session_id \in DOMAIN sessions]>>
  /\ UNCHANGED notSessions

\* process_message for one of the sessions.
SessionMessage(session_id, user_message) ==
  /\ Turns(GetOrCreateSession(sessions, session_id)) < MaxSessionTurns
  /\ ProcessMessage(session_id, user_message)

NextSessions ==
  \/ \E id \in ChatSessionIds, m \in Messages : SessionMessage(id, m)
  \/ \E id \in ChatSessionIds : DeleteSessionCall(id)

SpecSessions == InitChat /\ [][NextSessions]_vars

\* Conversations in which a strong signal can come before a weak one.
PriorityMessages == {<<"trapped">>, <<"wound">>, <<"no">>}

NextPriority ==
  \E id \in SessionIds, m \in PriorityMessages : ProcessMessage(id, m)

SpecPriority == InitChat /\ [][NextPriority]_vars

\* ============================================================ NLP triage calls
MaxSignals == 2
MaxCalls == 2

\* UrgencySignal: the signal a rule yields for its own first word.
SignalOf(rule) ==
  LET word == CHOOSE w \in Vocabulary : Matches(rule.patterns, <<w>>) # {}
  IN [keyword |-> <<word>>, label |-> rule.label,
      severity_boost |-> rule.boost, offset |-> 1]

\* The signals the words of the vocabulary give rise to.
Signals ==
  {SignalOf(URGENCY_RULES[k]) :
     k \in {j \in DOMAIN URGENCY_RULES :
              \E w \in Vocabulary :
                Matches(URGENCY_RULES[j].patterns, <<w>>) # {}}}

\* A call of escalate_priority and what it returned.
EscalateCall(base_priority, signals) ==
  /\ Cardinality(nlp_calls) < MaxCalls
  /\ nlp_calls' = nlp_calls \cup
       {[op |-> "escalate_priority", base_priority |-> base_priority,
         signals |-> signals,
         result |-> EscalatePriority(base_priority, signals)]}
  /\ UNCHANGED notNlp

NextNlp ==
  \E p \in Range(PRIORITY_LEVELS), S \in SeqsUpTo(Signals, MaxSignals) :
    EscalateCall(p, S)

\* The triage functions alone.
InitNlp == Init /\ ~cfg.SENDGRID_API_KEY /\ budget.stops + budget.faults = 0

SpecNlp == InitNlp /\ [][NextNlp]_vars

\* ================================================================ text triage
MaxWords == 3
MaxTriage == 2

\* The words of the texts submitted for triage.
TriageWords == {"wound", "heart", "no", "water", "eat", "medicine"}

Texts == SeqsUpTo(TriageWords, MaxWords)

Served(call) ==
  /\ Cardinality(nlp_calls) < MaxTriage
  /\ nlp_calls' = nlp_calls \cup {call}
  /\ UNCHANGED notNlp

\* A call of extract_urgency_signals and what it returned.
ExtractUrgencyCall ==
  Served([op |-> "extract_urgency_signals", text |-> triage_text,
          result |-> ExtractUrgencySignals(triage_text)])

\* A call of classify_resource_type and what it returned.
ClassifyResourceCall ==
  Served([op |-> "classify_resource_type", text |-> triage_text,
          result |-> ClassifyResourceType(triage_text)])

\* A call of classify_request and what it returned.
ClassifyRequestCall(user_priority) ==
  Served([op |-> "classify_request", text |-> triage_text,
          user_priority |-> user_priority,
          result |-> ClassifyRequest(triage_text, user_priority)])

NextTriage ==
  \/ ExtractUrgencyCall
  \/ ClassifyResourceCall
  \/ \E p \in Range(PRIORITY_LEVELS) : ClassifyRequestCall(p)

\* The triage of one text, drawn from the texts of at most MaxWords words.
InitTriage ==
  /\ InitIngestion /\ ~cfg.SENDGRID_API_KEY
  /\ budget.stops + budget.faults = 0
  /\ InitServices /\ EmptyTables
  /\ triage_text \in Texts
  /\ solve_input = NoInput

SpecTriage == InitTriage /\ [][NextTriage]_vars

\* ========================================================= allocation solver
MaxResources == 2
MaxNeeds == 2

SupplyTypes == {"Food", "Water"}

Quantities == {1, 2}

\* ResourceNeed.urgency, on the scale from 1 to 10.
Urgencies == {1, 5}

\* Where resources are kept: 10 km, 400 km and 600 km from the zone.
Places == {"near", "far", "beyond"}

NoExpiry == "none"

\* expiry_date: None, or a date that is not after now.
Expiries == {NoExpiry, "due"}

\* haversine, in km, between a place and the disaster zone.
Haversine(location_id) ==
  CASE location_id = "near" -> 10
    [] location_id = "far" -> 400
    [] location_id = "beyond" -> 600

\* PriorityWeights, in tenths: the defaults, and weights under which only
\* the distance counts.
DefaultWeights ==
  [urgency_weight |-> 10, distance_weight |-> 3, expiry_weight |-> 2,
   coverage_weight |-> 10]

DistanceOnly ==
  [urgency_weight |-> 0, distance_weight |-> 10, expiry_weight |-> 0,
   coverage_weight |-> 0]

DefaultMaxDistance == 500

\* AvailableResource, with the id i
AvailableResource(i) ==
  [id : {i}, resource_type : SupplyTypes, quantity : Quantities,
   location_id : Places, expiry_date : Expiries]

ResourceNeed ==
  [need_type : SupplyTypes, quantity : Quantities, urgency : Urgencies]

\* The lists of up to n resources with the ids 1, 2, ...
ResourceLists(n) ==
  UNION {{r \in [1..k -> UNION {AvailableResource(i) : i \in 1..k}] :
            \A i \in 1..k : r[i].id = i} : k \in 0..n}

\* _expiry_score, doubled: 0.5 without an expiry date, exp(-0.05 * 0) = 1
\* for a date that is reached.
ExpiryScore(resource) == IF resource.expiry_date = NoExpiry THEN 1 ELSE 2

\* An eligibility that does not look at the distance.
EligibleAnywhere(resources, needs, max_distance_km) ==
  {p \in (DOMAIN resources) \X (DOMAIN needs) :
     /\ resources[p[1]].resource_type = needs[p[2]].need_type
     /\ resources[p[1]].quantity >= needs[p[2]].quantity}

\* eligible[i][j]
Eligible(resources, needs, max_distance_km) ==
  {p \in (DOMAIN resources) \X (DOMAIN needs) :
     /\ resources[p[1]].resource_type = needs[p[2]].need_type
     /\ Haversine(resources[p[1]].location_id) <= max_distance_km
     /\ resources[p[1]].quantity >= needs[p[2]].quantity}

\* The coefficient of x[i][j] in the objective, urgency_val + coverage_val
\* + expiry_bonus - dist_penalty, multiplied by 20 * max(sum of the
\* quantities, 1) * max(max_distance_km, 1) to make it a whole number.
Coefficient(p, resources, needs, weights, max_distance_km) ==
  LET total == MaxOf({SumOf([j \in DOMAIN needs |-> needs[j].quantity]), 1})
      cap == MaxOf({max_distance_km, 1})
  IN 2 * total * cap * needs[p[2]].urgency * weights.urgency_weight
       + 2 * cap * needs[p[2]].quantity * weights.coverage_weight
       + total * cap * ExpiryScore(resources[p[1]]) * weights.expiry_weight
       - 2 * total * Haversine(resources[p[1]].location_id)
           * weights.distance_weight

\* The values of x that satisfy one_alloc only.
FeasibleManyPerNeed(eligible) ==
  {x \in SUBSET eligible : \A p, q \in x : p[1] = q[1] => p = q}

\* The values of x that satisfy the constraints: no ineligible pair, one
\* allocation per resource (one_alloc), one source per need (one_source).
Feasible(eligible) ==
  {x \in SUBSET eligible :
     \A p, q \in x : p[1] = q[1] \/ p[2] = q[2] => p = q}

RECURSIVE Objective(_, _, _, _, _)
Objective(x, resources, needs, weights, max_distance_km) ==
  IF x = {} THEN 0
  ELSE LET p == CHOOSE q \in x : TRUE
       IN Coefficient(p, resources, needs, weights, max_distance_km)
            + Objective(x \ {p}, resources, needs, weights, max_distance_km)

\* A solver that stops at any x satisfying the constraints.
SolveAnyFeasible(resources, needs, weights, max_distance_km) ==
  {[status |-> "Optimal", x |-> x] :
     x \in Feasible(Eligible(resources, needs, max_distance_km))}
  \cup {[status |-> "Not Solved", x |-> {}]}

\* What prob.solve can leave behind: an optimal x with status Optimal, or
\* no solution within the time limit.
Solve(resources, needs, weights, max_distance_km) ==
  LET Best(feasible) ==
        {x \in feasible :
           \A y \in feasible :
             Objective(y, resources, needs, weights, max_distance_km)
               <= Objective(x, resources, needs, weights, max_distance_km)}
  IN {[status |-> "Optimal", x |-> x] :
        x \in Best(Feasible(Eligible(resources, needs, max_distance_km)))}
     \cup {[status |-> "Not Solved", x |-> {}]}

\* The unmet_needs entry of need j.
Unmet(needs, j) ==
  [type |-> needs[j].need_type, quantity |-> needs[j].quantity,
   urgency |-> needs[j].urgency]

\* AllocationResult()
AllocationResult ==
  [allocations |-> <<>>, unmet_needs |-> <<>>, coverage_pct |-> 0,
   estimated_delivery_km |-> 0, optimization_score |-> 0,
   solver_status |-> "not_solved"]

\* A result without allocations that does not list the needs.
UnsolvedNothingUnmet(needs, solver_status) ==
  [AllocationResult EXCEPT !.solver_status = solver_status]

\* The result of a call that allocates nothing.
Unsolved(needs, solver_status) ==
  [AllocationResult EXCEPT
     !.solver_status = solver_status,
     !.unmet_needs = [j \in DOMAIN needs |-> Unmet(needs, j)]]

\* The pairs with x[i][j] = 1, in the order of the loops over i and j.
RECURSIVE Chosen(_, _, _)
Chosen(x, i, n_res) ==
  IF i > n_res THEN <<>>
  ELSE (IF \E p \in x : p[1] = i
        THEN <<CHOOSE p \in x : p[1] = i>> ELSE <<>>)
         \o Chosen(x, i + 1, n_res)

\* round(met / n * 100, 2) in hundredths and round(met / n, 4) in
\* ten-thousandths are the same number.
Share(met, n) == IF n = 0 THEN 0 ELSE (2 * 10000 * met + n) \div (2 * n)

\* solve_allocation(resources, needs, weights, max_distance_km), for what
\* the solver leaves behind; prob is not looked at when nothing is solved.
SolveAllocation(resources, needs, weights, max_distance_km, prob) ==
  IF resources = <<>> \/ needs = <<>> THEN Unsolved(needs, "trivial_empty")
  ELSE IF Eligible(resources, needs, max_distance_km) = {}
  THEN Unsolved(needs, "infeasible_no_eligible")
  ELSE IF prob.status # "Optimal" THEN Unsolved(needs, prob.status)
  ELSE LET Extracted(chosen, met_indices) ==
             [allocations |->
                [k \in DOMAIN chosen |->
                   [resource_id |-> resources[chosen[k][1]].id,
                    type |-> resources[chosen[k][1]].resource_type,
                    quantity |-> needs[chosen[k][2]].quantity,
                    location |-> resources[chosen[k][1]].location_id,
                    distance_km |->
                      Haversine(resources[chosen[k][1]].location_id),
                    expiry_date |-> resources[chosen[k][1]].expiry_date]],
              unmet_needs |->
                LET unmet == SelectSeq([j \in DOMAIN needs |-> j],
                                       LAMBDA j : j \notin met_indices)
                IN [k \in DOMAIN unmet |-> Unmet(needs, unmet[k])],
              coverage_pct |-> Share(Cardinality(met_indices), Len(needs)),
              estimated_delivery_km |->
                SumOf([k \in DOMAIN chosen |->
                         Haversine(resources[chosen[k][1]].location_id)]),
              optimization_score |->
                Share(Cardinality(met_indices), Len(needs)),
              solver_status |-> prob.status]
       IN Extracted(Chosen(prob.x, 1, Len(resources)),
                    {p[2] : p \in prob.x})

\* A call of solve_allocation with the submitted arguments.  x is kept with
\* what the call returned.
SolveCall ==
  /\ solve_input # NoInput
  /\ solve_result = <<>>
  /\ \E prob \in Solve(solve_input.resources, solve_input.needs,
                        solve_input.weights, solve_input.max_distance_km) :
       solve_result' =
         <<[returned |->
              SolveAllocation(solve_input.resources, solve_input.needs,
                              solve_input.weights,
                              solve_input.max_distance_km, prob),
            x |-> IF /\ solve_input.resources # <<>>
                     /\ solve_input.needs # <<>>
                  THEN prob.x ELSE {}]>>
  /\ UNCHANGED <<notSolve, solve_input>>

NextSolve == SolveCall

\* One allocation problem, drawn from the lists of up to MaxResources
\* resources and up to MaxNeeds needs.
InitSolve ==
  /\ InitIngestion /\ ~cfg.SENDGRID_API_KEY
  /\ budget.stops + budget.faults = 0
  /\ InitServices /\ EmptyTables
  /\ triage_text = <<>>
  /\ solve_input \in [resources : ResourceLists(MaxResources),
                       needs : SeqsUpTo(ResourceNeed, MaxNeeds),
                       weights : {DefaultWeights, DistanceOnly},
                       max_distance_km : {DefaultMaxDistance}]

SpecSolve == InitSolve /\ [][NextSolve]_vars

\* ======================================================= allocation requests
\* POST /resources/allocate and POST /resources/{id}/deallocate.  The store
\* is a service of its own that every server instance works on; a handler is
\* a sequence of requests to it.
MaxAllocations == 2
MaxDeallocations == 1

NoDisaster == "none"

DisasterIds == {"d1", "d2"}

\* The rows of table resources with id i.  All the zones of the disasters
\* lie together, so that the location of a resource gives its distance.
ResourceRows(i) ==
  {[id |-> i, type |-> t, quantity |-> 2, location_id |-> l,
    expiry_date |-> NoExpiry, status |-> "available",
    disaster_id |-> NoDisaster] :
     t \in SupplyTypes, l \in {"near", "beyond"}}

ResourceTables(n) ==
  UNION {{r \in [1..k -> UNION {ResourceRows(i) : i \in 1..k}] :
            \A i \in 1..k : r[i].id = i} : k \in 0..n}

\* AllocationRequest: the entries of required_resources are dictionaries
\* with type, quantity and priority.
AllocationRequest ==
  [disaster_id : DisasterIds,
   required_resources :
     SeqsUpTo({[type |-> t, quantity |-> 1, priority |-> 5] :
                 t \in SupplyTypes}, MaxNeeds),
   weights : {DefaultWeights},
   max_distance_km : {DefaultMaxDistance}]

\* available: the rows read, as AvailableResource.
AvailableOf(raw_resources) ==
  [i \in DOMAIN raw_resources |->
     [id |-> raw_resources[i].id,
      resource_type |-> raw_resources[i].type,
      quantity |-> raw_resources[i].quantity,
      location_id |-> raw_resources[i].location_id,
      expiry_date |-> raw_resources[i].expiry_date]]

\* needs: the required resources, as ResourceNeed.
NeedsOf(required_resources) ==
  [j \in DOMAIN required_resources |->
     [need_type |-> required_resources[j].type,
      quantity |-> required_resources[j].quantity,
      urgency |-> required_resources[j].priority]]

\* allocate_resources up to the solver: the rows with status available are
\* read from the store.
AllocateRead(allocation_request) ==
  /\ Len(allocate_calls) < MaxAllocations
  /\ allocate_calls' =
       Append(allocate_calls,
              [request |-> allocation_request,
               raw_resources |->
                 SelectSeq(resource_table,
                           LAMBDA r : r.status = "available"),
               pc |-> "read", response |-> <<>>])
  /\ UNCHANGED <<notRouters, resource_table, resource_log,
                 resource_requests, request_calls>>

\* The update of allocate_resources: every row whose id is in allocated_ids
\* gets status allocated and the disaster of the request.
MarkAllocated(allocated_ids, disaster_id) ==
  [i \in DOMAIN resource_table |->
     IF resource_table[i].id \in allocated_ids
     THEN [resource_table[i] EXCEPT !.status = "allocated",
                                    !.disaster_id = disaster_id]
     ELSE resource_table[i]]

\* The rest of allocate_resources: the solver runs on what was read, the
\* allocated rows are updated in one request, and the result is returned.
AllocatePersist(k) ==
  /\ allocate_calls[k].pc = "read"
  /\ \E prob \in Solve(AvailableOf(allocate_calls[k].raw_resources),
                        NeedsOf(allocate_calls[k].request.required_resources),
                        allocate_calls[k].request.weights,
                        allocate_calls[k].request.max_distance_km) :
       LET Persisted(result, allocated_ids) ==
             /\ IF result.allocations # <<>>
                THEN /\ resource_table' =
                          MarkAllocated(allocated_ids,
                                        allocate_calls[k].request.disaster_id)
                     /\ resource_log' =
                          Append(resource_log,
                                 [op |-> "allocate", call |-> k,
                                  ids |-> allocated_ids])
                ELSE UNCHANGED <<resource_table, resource_log>>
             /\ allocate_calls' =
                  [allocate_calls EXCEPT ![k].pc = "done",
                                         ![k].response = <<result>>]
           Ids(result) ==
             {result.allocations[a].resource_id :
                a \in DOMAIN result.allocations}
           Solved(result) == Persisted(result, Ids(result))
       IN Solved(SolveAllocation(
                   AvailableOf(allocate_calls[k].raw_resources),
                   NeedsOf(allocate_calls[k].request.required_resources),
                   allocate_calls[k].request.weights,
                   allocate_calls[k].request.max_distance_km, prob))
  /\ UNCHANGED <<notRouters, resource_requests, request_calls>>

\* Any exception after the read (a store request that fails) ends the
\* request with status 500.
AllocateFail(k) ==
  /\ allocate_calls[k].pc = "read"
  /\ allocate_calls' = [allocate_calls EXCEPT ![k].pc = "failed"]
  /\ UNCHANGED <<notRouters, resource_table, resource_log,
                 resource_requests, request_calls>>

\* deallocate_resource of a row that exists (404 otherwise).
Deallocate(resource_id) ==
  /\ Cardinality({m \in DOMAIN resource_log :
                    resource_log[m].op = "deallocate"}) < MaxDeallocations
  /\ \E i \in DOMAIN resource_table :
       /\ resource_table[i].id = resource_id
       /\ resource_table' =
            [resource_table EXCEPT ![i].status = "available",
                                   ![i].disaster_id = NoDisaster]
  /\ resource_log' =
       Append(resource_log,
              [op |-> "deallocate", call |-> 0, ids |-> {resource_id}])
  /\ UNCHANGED <<notRouters, allocate_calls, resource_requests,
                 request_calls>>

NextAllocate ==
  \/ \E allocation_request \in AllocationRequest :
       AllocateRead(allocation_request)
  \/ \E k \in DOMAIN allocate_calls : AllocatePersist(k)
  \/ \E k \in DOMAIN allocate_calls : AllocateFail(k)
  \/ \E resource_id \in 1..MaxResources : Deallocate(resource_id)

InitAllocate ==
  /\ InitIngestion /\ ~cfg.SENDGRID_API_KEY
  /\ budget.stops + budget.faults = 0
  /\ InitServices
  /\ triage_text = <<>>
  /\ solve_input = NoInput
  /\ resource_table \in ResourceTables(MaxResources)
  /\ resource_requests = <<>>

SpecAllocate == InitAllocate /\ [][NextAllocate]_vars

\* ========================================================= resource requests
\* PUT and DELETE /victim/requests/{request_id}.  The status of a request is
\* set to approved, assigned, in_progress or completed by other clients of
\* the store; no handler of the program does it.
MaxRequests == 1
MaxRequestCalls == 2
MaxStatusChanges == 1

RequestStatus ==
  {"pending", "approved", "assigned", "in_progress", "completed", "rejected"}

VictimIds == {"v1", "v2"}

\* The victim whom the bearer token names.
victim_id == "v1"

\* NULL, and a field of a request body that is set to v or not set.
NoValue == "None"

Unset == {}

SetTo(v) == {v}

ResourceItem == {[resource_type |-> "Water", quantity |-> 2]}

\* ResourceRequestUpdate, with its description and its items set or not.
ResourceRequestUpdate ==
  [description : {Unset, SetTo("edited")},
   items : {Unset} \cup {SetTo(i) : i \in SeqsUpTo(ResourceItem, 2)}]

\* The rows of table resource_requests with id i.
RequestRows(i) ==
  {[id |-> i, victim_id |-> v, status |-> st, description |-> "as created",
    items |-> <<>>, quantity |-> 1, resource_type |-> "Custom",
    rejection_reason |-> NoValue] :
     v \in VictimIds, st \in RequestStatus}

RequestTables(n) ==
  UNION {{{r[i] : i \in 1..k} :
            r \in {q \in [1..k -> UNION {RequestRows(i) : i \in 1..k}] :
                     \A i \in 1..k : q[i].id = i}} : k \in 0..n}

\* update_dict: the fields of update_data that are set; quantity and
\* resource_type are derived again from a non-empty list of items.
UpdateDict(update_data) ==
  LET Derived(items) ==
        [description |-> update_data.description,
         items |-> update_data.items,
         quantity |->
           SetTo(SumOf([i \in DOMAIN items |-> items[i].quantity])),
         resource_type |->
           SetTo(IF Len(items) = 1 THEN items[1].resource_type
                 ELSE "Multiple")]
  IN IF update_data.items \in {Unset, SetTo(<<>>)}
     THEN [description |-> update_data.description,
           items |-> update_data.items,
           quantity |-> Unset, resource_type |-> Unset]
     ELSE Derived(CHOOSE i \in update_data.items : TRUE)

EmptyDict ==
  [description |-> Unset, items |-> Unset, quantity |-> Unset,
   resource_type |-> Unset]

\* The row after .update(update_dict).
RowUpdated(row, update_dict) ==
  [f \in DOMAIN row |->
     IF f \in DOMAIN update_dict /\ update_dict[f] # Unset
     THEN CHOOSE v \in update_dict[f] : TRUE ELSE row[f]]

\* The rows that .eq("id", request_id).eq("victim_id", victim_id) selects.
OwnRows(request_id) ==
  {r \in resource_requests : r.id = request_id /\ r.victim_id = victim_id}

RequestServed(op, request_id, update_dict, current_status, pc, status_code) ==
  /\ Len(request_calls) < MaxRequestCalls
  /\ request_calls' =
       Append(request_calls,
              [op |-> op, request_id |-> request_id,
               update_dict |-> update_dict,
               current_status |-> current_status, pc |-> pc,
               status_code |-> status_code])

\* update_resource_request up to its update: the row is read; 404 without
\* a row of this victim, 400 unless its status is pending, 200 with the row
\* as it is when nothing is to be updated.
UpdateRead(request_id, update_data) ==
  /\ IF OwnRows(request_id) = {}
     THEN RequestServed("update", request_id, EmptyDict, NoValue, "done", 404)
     ELSE LET Checked(existing, update_dict) ==
                IF existing.status # "pending"
                THEN RequestServed("update", request_id, update_dict,
                               existing.status, "done", 400)
                ELSE IF update_dict = EmptyDict
                THEN RequestServed("update", request_id, update_dict,
                               existing.status, "done", 200)
                ELSE RequestServed("update", request_id, update_dict,
                               existing.status, "checked", 0)
          IN Checked(CHOOSE r \in OwnRows(request_id) : TRUE,
                     UpdateDict(update_data))
  /\ UNCHANGED <<notRouters, resource_table, allocate_calls, resource_log,
                 resource_requests>>

\* The update of update_resource_request, by id and victim_id; 500 when no
\* row comes back.
UpdateWrite(k) ==
  /\ request_calls[k].op = "update"
  /\ request_calls[k].pc = "checked"
  /\ resource_requests' =
       {IF r \in OwnRows(request_calls[k].request_id)
        THEN RowUpdated(r, request_calls[k].update_dict) ELSE r :
          r \in resource_requests}
  /\ request_calls' =
       [request_calls EXCEPT
          ![k].pc = "done",
          ![k].status_code =
            IF OwnRows(request_calls[k].request_id) = {} THEN 500 ELSE 200]
  /\ UNCHANGED <<notRouters, resource_table, allocate_calls, resource_log>>

\* A cancellation that sets every request that is not pending to rejected.
DeleteReadRejectsAll(request_id) ==
  /\ IF OwnRows(request_id) = {}
     THEN RequestServed("delete", request_id, EmptyDict, NoValue, "done", 404)
     ELSE LET Decided(current_status) ==
                RequestServed("delete", request_id, EmptyDict,
                              current_status,
                              IF current_status = "pending"
                              THEN "delete" ELSE "reject", 0)
          IN Decided((CHOOSE r \in OwnRows(request_id) : TRUE).status)
  /\ UNCHANGED <<notRouters, resource_table, allocate_calls, resource_log,
                 resource_requests>>

\* delete_resource_request up to its write: the status is read; 404 without
\* a row of this victim, 400 for a status that cannot be cancelled.
DeleteRead(request_id) ==
  /\ IF OwnRows(request_id) = {}
     THEN RequestServed("delete", request_id, EmptyDict, NoValue, "done", 404)
     ELSE LET Decided(current_status) ==
                IF current_status = "pending"
                THEN RequestServed("delete", request_id, EmptyDict,
                               current_status, "delete", 0)
                ELSE IF current_status
                          \in {"approved", "assigned", "in_progress"}
                THEN RequestServed("delete", request_id, EmptyDict,
                               current_status, "reject", 0)
                ELSE RequestServed("delete", request_id, EmptyDict,
                               current_status, "done", 400)
          IN Decided((CHOOSE r \in OwnRows(request_id) : TRUE).status)
  /\ UNCHANGED <<notRouters, resource_table, allocate_calls, resource_log,
                 resource_requests>>

\* The write of delete_resource_request, by id: the row is deleted, or set
\* to rejected with the reason "Cancelled by victim".
DeleteWrite(k) ==
  /\ request_calls[k].op = "delete"
  /\ request_calls[k].pc \in {"delete", "reject"}
  /\ resource_requests' =
       IF request_calls[k].pc = "delete"
       THEN {r \in resource_requests : r.id # request_calls[k].request_id}
       ELSE {IF r.id = request_calls[k].request_id
             THEN [r EXCEPT !.status = "rejected",
                            !.rejection_reason = "Cancelled by victim"]
             ELSE r : r \in resource_requests}
  /\ request_calls' =
       [request_calls EXCEPT ![k].pc = "done", ![k].status_code = 200]
  /\ UNCHANGED <<notRouters, resource_table, allocate_calls, resource_log>>

\* Another client of the store sets the status of a request.
StatusSet(request_id, status) ==
  /\ Cardinality({m \in DOMAIN resource_log :
                    resource_log[m].op = "status"}) < MaxStatusChanges
  /\ \E row \in resource_requests :
       /\ row.id = request_id
       /\ row.status # status
       /\ resource_requests' =
            (resource_requests \ {row})
              \cup {[row EXCEPT !.status = status]}
  /\ resource_log' =
       Append(resource_log,
              [op |-> "status", call |-> 0, ids |-> {request_id}])
  /\ UNCHANGED <<notRouters, resource_table, allocate_calls, request_calls>>

NextRequests ==
  \/ \E request_id \in 1..MaxRequests,
        update_data \in ResourceRequestUpdate :
       UpdateRead(request_id, update_data)
  \/ \E k \in DOMAIN request_calls : UpdateWrite(k)
  \/ \E request_id \in 1..MaxRequests : DeleteRead(request_id)
  \/ \E k \in DOMAIN request_calls : DeleteWrite(k)
  \/ \E request_id \in 1..MaxRequests, status \in RequestStatus :
       StatusSet(request_id, status)

InitRequests ==
  /\ InitIngestion /\ ~cfg.SENDGRID_API_KEY
  /\ budget.stops + budget.faults = 0
  /\ InitServices
  /\ triage_text = <<>>
  /\ solve_input = NoInput
  /\ resource_table = <<>>
  /\ resource_requests \in RequestTables(MaxRequests)

SpecRequests == InitRequests /\ [][NextRequests]_vars

\* ======================================================== background tasks
\* Time is counted in hours: the hour of the day and, for a task that
\* sleeps, the hours left until asyncio.sleep returns.
HoursPerDay == 24
SITREP_CRON_HOUR_UTC == 6
\* ANOMALY_DETECTION_INTERVAL_S and the sleep after a sitrep error, 3600 s.
AnomalyIntervalHours == 1
SitrepRetryHours == 1

\* _sitrep_cron_loop: wait_seconds, from now to the next target hour.
WaitHours(now) ==
  IF now >= SITREP_CRON_HOUR_UTC
  THEN SITREP_CRON_HOUR_UTC + HoursPerDay - now
  ELSE SITREP_CRON_HOUR_UTC - now

\* lifespan, startup: the detector and the two tasks are created; neither
\* task has run yet.
LifespanStartup ==
  /\ app_state = "startup"
  /\ app_state' = "serving"
  /\ anomaly_detector' = [anomaly_detector EXCEPT !.pc = "created"]
  /\ sitrep_cron_task' = [sitrep_cron_task EXCEPT !.pc = "created"]
  /\ UNCHANGED <<utc_hour, notLifespan>>

\* lifespan, shutdown: stop_periodic_detection() and sitrep_cron_task.cancel().
LifespanShutdown ==
  /\ app_state = "serving"
  /\ app_state' = "shutdown"
  /\ anomaly_detector' =
       [anomaly_detector EXCEPT !.running = FALSE, !.stopped = TRUE]
  /\ sitrep_cron_task' =
       IF sitrep_cron_task.pc = "done" THEN sitrep_cron_task
       ELSE [sitrep_cron_task EXCEPT !.cancelled = TRUE]
  /\ UNCHANGED <<utc_hour, notLifespan>>

\* A detection cycle ended by returning.
DetectionReturns ==
  [anomaly_detector EXCEPT !.pc = "sleeping", !.left = AnomalyIntervalHours]

\* start_periodic_detection, its first step: the flag is set, and the loop
\* is entered: a first detection begins.
StartPeriodicDetection ==
  /\ anomaly_detector.pc = "created"
  /\ anomaly_detector' =
       [anomaly_detector EXCEPT !.running = TRUE, !.pc = "detecting"]
  /\ UNCHANGED <<app_state, sitrep_cron_task, utc_hour, notLifespan>>

\* run_detection returned or raised (the error is logged); the loop sleeps.
DetectionEnd ==
  /\ anomaly_detector.pc = "detecting"
  /\ anomaly_detector' = DetectionReturns
  /\ UNCHANGED <<app_state, sitrep_cron_task, utc_hour, notLifespan>>

\* The sleep returned: "while self._running" begins the next detection or
\* leaves the loop.
DetectionWake ==
  /\ anomaly_detector.pc = "sleeping" /\ anomaly_detector.left = 0
  /\ anomaly_detector' =
       [anomaly_detector EXCEPT
          !.pc = IF anomaly_detector.running THEN "detecting" ELSE "done"]
  /\ UNCHANGED <<app_state, sitrep_cron_task, utc_hour, notLifespan>>

\* The task leaves generate_report with an exception and is over.
GenerateEndStops(raised) ==
  /\ sitrep_cron_task.pc = "generating" /\ ~sitrep_cron_task.cancelled
  /\ sitrep_cron_task' =
       IF raised
       THEN [sitrep_cron_task EXCEPT !.pc = "done", !.ended = "error"]
       ELSE [sitrep_cron_task EXCEPT !.pc = "sleep_target",
                                     !.left = WaitHours(utc_hour)]
  /\ UNCHANGED <<app_state, anomaly_detector, utc_hour, notLifespan>>

\* _sitrep_cron_loop, its first step: the wait until the target hour.
SitrepStart ==
  /\ sitrep_cron_task.pc = "created" /\ ~sitrep_cron_task.cancelled
  /\ sitrep_cron_task' =
       [sitrep_cron_task EXCEPT !.pc = "sleep_target",
                                !.left = WaitHours(utc_hour)]
  /\ UNCHANGED <<app_state, anomaly_detector, utc_hour, notLifespan>>

\* The sleep until the target hour returned: generate_report is called.
SitrepWake ==
  /\ sitrep_cron_task.pc = "sleep_target" /\ sitrep_cron_task.left = 0
  /\ ~sitrep_cron_task.cancelled
  /\ sitrep_cron_task' = [sitrep_cron_task EXCEPT !.pc = "generating"]
  /\ UNCHANGED <<app_state, anomaly_detector, utc_hour, notLifespan>>

\* generate_report returned: the loop computes the next target and sleeps;
\* or it raised: the error is logged and the task sleeps one hour.
GenerateEnd(raised) ==
  /\ sitrep_cron_task.pc = "generating" /\ ~sitrep_cron_task.cancelled
  /\ sitrep_cron_task' =
       IF raised
       THEN [sitrep_cron_task EXCEPT !.pc = "sleep_hour",
                                     !.left = SitrepRetryHours]
       ELSE [sitrep_cron_task EXCEPT !.pc = "sleep_target",
                                     !.left = WaitHours(utc_hour)]
  /\ UNCHANGED <<app_state, anomaly_detector, utc_hour, notLifespan>>

\* The hour's sleep after an error returned: back to the top of the loop.
SitrepRetry ==
  /\ sitrep_cron_task.pc = "sleep_hour" /\ sitrep_cron_task.left = 0
  /\ ~sitrep_cron_task.cancelled
  /\ sitrep_cron_task' =
       [sitrep_cron_task EXCEPT !.pc = "sleep_target",
                                !.left = WaitHours(utc_hour)]
  /\ UNCHANGED <<app_state, anomaly_detector, utc_hour, notLifespan>>

\* The cancellation reaches the task: inside the try it is caught and the
\* loop is left with break; in the sleep of the except branch, or before the
\* task has run, CancelledError ends the task.
SitrepCancelled ==
  /\ sitrep_cron_task.cancelled /\ sitrep_cron_task.pc # "done"
  /\ sitrep_cron_task' =
       [sitrep_cron_task EXCEPT
          !.pc = "done", !.left = 0,
          !.ended = IF sitrep_cron_task.pc \in {"sleep_target", "generating"}
                    THEN "break" ELSE "cancelled"]
  /\ UNCHANGED <<app_state, anomaly_detector, utc_hour, notLifespan>>

\* An hour passes, unless a sleep that is over has not been resumed yet.
Due(task) == task.pc \in {"sleeping", "sleep_target", "sleep_hour"} /\ task.left = 0

Tick ==
  /\ ~Due(anomaly_detector) /\ ~Due(sitrep_cron_task)
  /\ utc_hour' = (utc_hour + 1) % HoursPerDay
  /\ anomaly_detector' =
       [anomaly_detector EXCEPT !.left = IF @ > 0 THEN @ - 1 ELSE 0]
  /\ sitrep_cron_task' =
       [sitrep_cron_task EXCEPT !.left = IF @ > 0 THEN @ - 1 ELSE 0]
  /\ UNCHANGED <<app_state, notLifespan>>

NextLifespan ==
  \/ LifespanStartup
  \/ LifespanShutdown
  \/ StartPeriodicDetection
  \/ DetectionEnd
  \/ DetectionWake
  \/ SitrepStart
  \/ SitrepWake
  \/ \E raised \in BOOLEAN : GenerateEnd(raised)
  \/ SitrepRetry
  \/ SitrepCancelled
  \/ Tick

\* The hours that pass before the startup make the process start at any hour
\* of the day.
InitLifespan == Init /\ ~cfg.SENDGRID_API_KEY /\ budget.stops + budget.faults = 0

\* The event loop resumes every task that can run, calls that were awaited
\* return, and time passes.
FairLifespan ==
  /\ WF_vars(StartPeriodicDetection) /\ WF_vars(DetectionEnd)
  /\ WF_vars(DetectionWake) /\ WF_vars(SitrepStart) /\ WF_vars(SitrepWake)
  /\ WF_vars(\E raised \in BOOLEAN : GenerateEnd(raised))
  /\ WF_vars(SitrepRetry) /\ WF_vars(SitrepCancelled) /\ WF_vars(Tick)

SpecLifespan == InitLifespan /\ [][NextLifespan]_vars /\ FairLifespan

\* ============================================================== retraining
MaxRetrainCalls == 3

\* A request that is not answered yet has no status code.
NoStatus == 0

\* A request to one of the two endpoints: where its job stands and how the
\* request was answered.  pc is "queued" (the background task is added but
\* _run_training has not begun), "training" (between the assignment of the
\* flag and the end of train_all), "loading" (retrain-sync suspended in
\* await ml_service.load_models()) or "done".
RetrainCall(endpoint, pc, status_code) ==
  [endpoint |-> endpoint, pc |-> pc, status_code |-> status_code,
   flag_read |-> training_in_progress,
   unfinished |-> {k \in DOMAIN retrain_calls : retrain_calls[k].pc # "done"}]

\* retrain_models_sync runs train_all inside the coroutine, so the event
\* loop serves no other request and starts no background task meanwhile.
LoopBlocked ==
  \E k \in DOMAIN retrain_calls :
    /\ retrain_calls[k].endpoint = "retrain-sync"
    /\ retrain_calls[k].pc = "training"

\* POST /retrain: 409 when the flag is set; otherwise the job is added to the
\* background tasks and the request is answered.  The flag is not written.
RetrainModels ==
  /\ Len(retrain_calls) < MaxRetrainCalls
  /\ ~LoopBlocked
  /\ retrain_calls' =
       Append(retrain_calls,
              IF training_in_progress
              THEN RetrainCall("retrain", "done", 409)
              ELSE RetrainCall("retrain", "queued", 200))
  /\ UNCHANGED <<training_in_progress, lifespanVars, notProcess>>

\* _run_training begins in its thread, after the response was sent.
RunTrainingStart(k) ==
  /\ retrain_calls[k].endpoint = "retrain"
  /\ retrain_calls[k].pc = "queued"
  /\ ~LoopBlocked
  /\ training_in_progress' = TRUE
  /\ retrain_calls' = [retrain_calls EXCEPT ![k].pc = "training"]
  /\ UNCHANGED <<lifespanVars, notProcess>>

\* _run_training ends: training and reload went through, or an exception
\* was logged; finally clears the flag.
RunTrainingEnd(k) ==
  /\ retrain_calls[k].endpoint = "retrain"
  /\ retrain_calls[k].pc = "training"
  /\ training_in_progress' = FALSE
  /\ retrain_calls' = [retrain_calls EXCEPT ![k].pc = "done"]
  /\ UNCHANGED <<lifespanVars, notProcess>>

\* POST /retrain-sync up to train_all: 409 when the flag is set; otherwise
\* the flag is set and the training begins in the coroutine.
RetrainModelsSync ==
  /\ Len(retrain_calls) < MaxRetrainCalls
  /\ ~LoopBlocked
  /\ IF training_in_progress
     THEN /\ retrain_calls' =
               Append(retrain_calls, RetrainCall("retrain-sync", "done", 409))
          /\ UNCHANGED training_in_progress
     ELSE /\ retrain_calls' =
               Append(retrain_calls,
                      RetrainCall("retrain-sync", "training", NoStatus))
          /\ training_in_progress' = TRUE
  /\ UNCHANGED <<lifespanVars, notProcess>>

\* train_all returned and the coroutine suspends in load_models, or the
\* training raised: 500, and finally clears the flag.
SyncTrained(k, raised) ==
  /\ retrain_calls[k].endpoint = "retrain-sync"
  /\ retrain_calls[k].pc = "training"
  /\ IF raised
     THEN /\ retrain_calls' =
               [retrain_calls EXCEPT ![k].pc = "done", ![k].status_code = 500]
          /\ training_in_progress' = FALSE
     ELSE /\ retrain_calls' = [retrain_calls EXCEPT ![k].pc = "loading"]
          /\ UNCHANGED training_in_progress
  /\ UNCHANGED <<lifespanVars, notProcess>>

\* load_models returned or raised: the answer, and finally clears the flag.
SyncLoaded(k, raised) ==
  /\ retrain_calls[k].endpoint = "retrain-sync"
  /\ retrain_calls[k].pc = "loading"
  /\ ~LoopBlocked
  /\ retrain_calls' =
       [retrain_calls EXCEPT ![k].pc = "done",
                             ![k].status_code = IF raised THEN 500 ELSE 200]
  /\ training_in_progress' = FALSE
  /\ UNCHANGED <<lifespanVars, notProcess>>

NextRetrain ==
  \/ RetrainModels
  \/ RetrainModelsSync
  \/ \E k \in DOMAIN retrain_calls : RunTrainingStart(k)
  \/ \E k \in DOMAIN retrain_calls : RunTrainingEnd(k)
  \/ \E k \in DOMAIN retrain_calls, raised \in BOOLEAN : SyncTrained(k, raised)
  \/ \E k \in DOMAIN retrain_calls, raised \in BOOLEAN : SyncLoaded(k, raised)

InitRetrain == Init /\ ~cfg.SENDGRID_API_KEY /\ budget.stops + budget.faults = 0

SpecRetrain == InitRetrain /\ [][NextRetrain]_vars

\* ======================================================== request creation
MaxCreateCalls == 1

\* RequestPriority
RequestPriority == {"critical", "high", "medium", "low"}

\* ResourceRequestCreate: the fields the handler looks at.  The description
\* is a text; the empty text stands for a request without description.
ResourceRequestCreate ==
  [resource_type : {Unset, SetTo("Food")},
   quantity : {1, 2},
   items : SeqsUpTo(ResourceItem, 2),
   description : {triage_text},
   priority : RequestPriority]

\* A handler that never takes over the recommended priority.
FinalPriorityKept(request_data, classification) == request_data.priority

\* final_priority: the user's priority, or the recommended one when the
\* classification went through and escalated.
FinalPriority(request_data, classification) ==
  IF classification # Unset
  THEN LET c == CHOOSE c \in classification : TRUE
       IN IF c.priority_was_escalated THEN c.recommended_priority
          ELSE request_data.priority
  ELSE request_data.priority

\* primary_type and total_qty, from the items or else from the request, and
\* then from the classification when the user left the defaults.
PrimaryType(request_data, classification) ==
  LET items_list == request_data.items
      primary_type ==
        IF items_list # <<>>
        THEN IF Len(items_list) = 1 THEN items_list[1].resource_type
             ELSE "Multiple"
        ELSE IF request_data.resource_type # Unset
        THEN CHOOSE t \in request_data.resource_type : TRUE
        ELSE "Custom"
  IN IF classification # Unset /\ primary_type = "Custom"
     THEN LET c == CHOOSE c \in classification : TRUE
          IN IF c.resource_types = <<>> THEN primary_type
             ELSE IF Len(c.resource_types) = 1 THEN c.resource_types[1]
             ELSE "Multiple"
     ELSE primary_type

TotalQty(request_data, classification) ==
  LET items_list == request_data.items
      total_qty ==
        IF items_list # <<>>
        THEN SumOf([i \in DOMAIN items_list |-> items_list[i].quantity])
        ELSE request_data.quantity
  IN IF classification # Unset /\ total_qty = 1
     THEN LET c == CHOOSE c \in classification : TRUE
          IN IF c.estimated_quantity > 1 THEN c.estimated_quantity
             ELSE total_qty
     ELSE total_qty

\* POST /victim/requests.  The classification is run when there is a
\* description; it returns or raises, and what it raises is caught.  The
\* insert returns the row, returns nothing or raises: 201 or 500.
CreateResourceRequest(request_data, classified, outcome) ==
  /\ Len(request_calls) < MaxCreateCalls
  /\ classified \in (IF request_data.description = <<>> THEN {"none"}
                     ELSE {"ok", "raise"})
  /\ LET classification ==
           IF classified = "ok"
           THEN SetTo(ClassifyRequest(request_data.description,
                                      request_data.priority))
           ELSE Unset
         insert_data ==
           [id |-> Len(resource_requests) + 1,
            victim_id |-> victim_id,
            resource_type |-> PrimaryType(request_data, classification),
            quantity |-> TotalQty(request_data, classification),
            items |-> request_data.items,
            priority |-> FinalPriority(request_data, classification),
            status |-> "pending",
            description |-> request_data.description,
            nlp_classification |-> classification]
     IN /\ resource_requests' =
             IF outcome = "ok" THEN Append(resource_requests, insert_data)
             ELSE resource_requests
        /\ request_calls' =
             Append(request_calls,
                    [op |-> "create", request_data |-> request_data,
                     classified |-> classified,
                     classification |-> classification,
                     status_code |-> IF outcome = "ok" THEN 201 ELSE 500,
                     row |-> IF outcome = "ok"
                             THEN SetTo(Len(resource_requests) + 1)
                             ELSE Unset])
  /\ UNCHANGED <<notRouters, resource_table, allocate_calls, resource_log>>

NextCreate ==
  \E request_data \in ResourceRequestCreate,
     classified \in {"none", "ok", "raise"}, outcome \in Outcomes :
    CreateResourceRequest(request_data, classified, outcome)

InitCreate ==
  /\ InitIngestion /\ ~cfg.SENDGRID_API_KEY
  /\ budget.stops + budget.faults = 0
  /\ InitServices /\ EmptyTables
  /\ triage_text \in Texts
  /\ solve_input = NoInput

SpecCreate == InitCreate /\ [][NextCreate]_vars

\* ============================================================== properties
HasStep(e, step) == \E i \in DOMAIN log : log[i] = <<e, step>>

EventIds == DOMAIN ingested_events

\* C1: after any sequence of polls, ingested_events holds at most one row
\* per external_id (rows without an external_id aside).
OneRowPerExternalId ==
  \A i, j \in EventIds :
    /\ ingested_events[i].external_id # NoExternalId
    /\ ingested_events[i].external_id = ingested_events[j].external_id
    => i = j

\* C2: a poll inserts no row for an upstream record that the store already
\* held before the poll, so polling the same records again inserts nothing
\* (ingested events and satellite observations alike).
SameRecord(a, b) ==
  /\ a.source = b.source
  /\ a.external_id = b.external_id
  /\ a.severity = b.severity
  /\ a.cell = b.cell

RepollInsertsNothing ==
  [][/\ \A i \in (Len(ingested_events) + 1)..Len(ingested_events') :
          \A j \in DOMAIN ingested_events :
            ~SameRecord(ingested_events[j], ingested_events'[i])
     /\ \A i \in (Len(satellite_observations) + 1)
                    ..Len(satellite_observations') :
          \A j \in DOMAIN satellite_observations :
            satellite_observations[j].external_id
              # satellite_observations'[i].external_id]_vars

\* C3: no AlertNotification exists for an event whose severity differs from
\* the configured threshold, whichever path took the event to the dispatcher.
NoAlertOffThreshold ==
  \A i \in DOMAIN alert_notifications :
    LET n == alert_notifications[i]
    IN /\ n.severity = cfg.ALERT_SEVERITY_THRESHOLD
       /\ ingested_events[n.event_id].severity = cfg.ALERT_SEVERITY_THRESHOLD

\* Events off the threshold reached the dispatcher on both paths: one at the
\* end of its cascade, a social one directly.
OffThresholdEvaluated ==
  \E a, b \in EventIds :
    /\ ingested_events[a].severity # cfg.ALERT_SEVERITY_THRESHOLD
    /\ ingested_events[b].severity # cfg.ALERT_SEVERITY_THRESHOLD
    /\ HasStep(a, "backfill") /\ HasStep(a, "alert")
    /\ ingested_events[b].source = "social"
    /\ ~HasStep(b, "location") /\ HasStep(b, "alert")

\* C4: the log of every event is strictly ordered by the cascade (location,
\* disaster, processed, severity, spread, impact, backfill, alert; a failed
\* step counts at its place), and the events of one poll are handled one
\* after the other in the order the adapter returned them.
StepOf(step) ==
  CASE step = "aborted" -> "disaster"
    [] step = "severity_failed" -> "severity"
    [] step = "spread_failed" -> "spread"
    [] step = "impact_failed" -> "impact"
    [] OTHER -> step

StepIndex(step) ==
  CHOOSE k \in DOMAIN CascadeSteps : CascadeSteps[k] = StepOf(step)

CascadeInOrder ==
  \A i, j \in DOMAIN log :
    i < j =>
      /\ log[i][1] = log[j][1] => StepIndex(log[i][2]) < StepIndex(log[j][2])
      /\ ingested_events[log[i][1]].poll = ingested_events[log[j][1]].poll
           => log[i][1] <= log[j][1]

FullCascade(e) == \A k \in DOMAIN CascadeSteps : HasStep(e, CascadeSteps[k])

\* Two events of one poll both went through the whole cascade.
TwoCascadesOfOnePoll ==
  \E a, b \in EventIds :
    /\ a # b
    /\ ingested_events[a].poll = ingested_events[b].poll
    /\ FullCascade(a) /\ FullCascade(b)

\* C5: for every source at most one poll is in flight at any time.
InFlight(t) ==
  tasks[t].kind \in {"loop", "manual"} /\ tasks[t].pc \notin {"wait", "done"}

OnePollInFlightPerSource ==
  \A f \in Feeds :
    Cardinality({t \in DOMAIN tasks : tasks[t].feed = f /\ InFlight(t)}) <= 1

\* C6: an event whose Disaster could not be created stays unprocessed with
\* no disaster_id; no Disaster, Prediction or AlertNotification belongs to
\* it; nothing more of the cascade runs for it, in this poll or a later one.
AbortedCascadeStops ==
  \A e \in EventIds :
    HasStep(e, "aborted") =>
      /\ ~ingested_events[e].processed
      /\ ingested_events[e].disaster_id = NoId
      /\ ingested_events[e].prediction_ids = <<>>
      /\ \A d \in DOMAIN disasters : disasters[d].event # e
      /\ \A p \in DOMAIN predictions :
           predictions[p].disaster_id \in DOMAIN disasters
           => disasters[predictions[p].disaster_id].event # e
      /\ \A n \in DOMAIN alert_notifications :
           alert_notifications[n].event_id # e
      /\ \A i \in DOMAIN log :
           log[i][1] = e => log[i][2] \in {"location", "aborted"}
      /\ Cardinality({i \in DOMAIN log : log[i] = <<e, "aborted">>}) = 1

\* An event was aborted and every poll of the run, the later ones offering
\* the same record included, has finished.
AbortedAndPolledAgain ==
  /\ \E e \in EventIds : HasStep(e, "aborted")
  /\ polls = MaxPolls
  /\ cur = NoTask
  /\ \A t \in DOMAIN tasks : tasks[t].pc \in {"wait", "done"}

\* C7: when a prediction step fails the other two are still attempted, the
\* ids of the successful ones are back-filled on the event before the alert
\* evaluation, and only a further failure keeps the cascade from reaching
\* the alert evaluation.
PredictionAttempted(e, ty) == HasStep(e, ty) \/ HasStep(e, FailedStep[ty])

PredictionFailed(e) ==
  \E ty \in Range(PredictionTypes) : HasStep(e, FailedStep[ty])

PredictionFailures ==
  Cardinality({i \in DOMAIN log :
                 \E ty \in Range(PredictionTypes) : log[i][2] = FailedStep[ty]})

PredictionsOf(e) ==
  LET mine == SelectSeq(predictions,
                LAMBDA p : /\ p.disaster_id \in DOMAIN disasters
                           /\ disasters[p.disaster_id].event = e)
  IN [i \in DOMAIN mine |-> mine[i].id]

InCascade(e) ==
  \E t \in DOMAIN tasks :
    /\ tasks[t].idx \in DOMAIN tasks[t].events
    /\ tasks[t].events[tasks[t].idx] = e
    /\ tasks[t].pc \in {"backfill", "alert"}

PredictionFailureContained ==
  \A e \in EventIds :
    PredictionFailed(e) =>
      /\ \A ty \in Range(PredictionTypes) : PredictionAttempted(e, ty)
      /\ HasStep(e, "alert")
           => ingested_events[e].prediction_ids = PredictionsOf(e)
      /\ ~HasStep(e, "alert") /\ ~InCascade(e) => faults > PredictionFailures

\* The severity step failed, spread and impact were written and back-filled,
\* and the alert evaluation ran.
SeverityFailedOthersRan ==
  \E e \in EventIds :
    /\ HasStep(e, "severity_failed")
    /\ HasStep(e, "spread") /\ HasStep(e, "impact")
    /\ Len(ingested_events[e].prediction_ids) = 2
    /\ HasStep(e, "alert")

\* C8: no exception leaves evaluate_and_notify while it walks the
\* recipients, so every recipient of the event is dispatched to.
PersistFailureContained ==
  \A t \in DOMAIN tasks : tasks[t].pc = "raised" => tasks[t].recipients = 0

\* C9: at most one Disaster, and at most one Prediction of each type, exists
\* for an external_id.
DisastersOf(x) ==
  {d \in DOMAIN disasters :
     ingested_events[disasters[d].event].external_id = x}

OneDisasterPerExternalId ==
  \A e \in EventIds :
    LET x == ingested_events[e].external_id
    IN x # NoExternalId =>
         /\ Cardinality(DisastersOf(x)) <= 1
         /\ \A ty \in Range(PredictionTypes) :
              Cardinality({p \in DOMAIN predictions :
                             /\ predictions[p].disaster_id \in DisastersOf(x)
                             /\ predictions[p].prediction_type = ty}) <= 1

\* C10: every Disaster's location_id is the id of a Location row, and every
\* Prediction's disaster_id and location_id are ids of existing rows.
LocationIds == {l.id : l \in locations}

ReferencesResolve ==
  /\ \A d \in DOMAIN disasters : disasters[d].location_id \in LocationIds
  /\ \A p \in DOMAIN predictions :
       /\ predictions[p].disaster_id \in DOMAIN disasters
       /\ predictions[p].location_id \in LocationIds

\* C11: no step sets processed back to false or changes the disaster_id of
\* an event that is processed.
ProcessedIsStable ==
  [][\A e \in DOMAIN ingested_events :
       ingested_events[e].processed =>
         /\ ingested_events'[e].processed
         /\ ingested_events'[e].disaster_id = ingested_events[e].disaster_id]_vars

\* A processed event was back-filled, and an event of a later poll went
\* through its own cascade afterwards.
ProcessedThenMoreWork ==
  \E a, b \in EventIds :
    /\ ingested_events[a].processed
    /\ ingested_events[a].prediction_ids # <<>>
    /\ ingested_events[b].poll > ingested_events[a].poll
    /\ HasStep(b, "alert") /\ ingested_events[b].processed

\* C12: a low or medium social event is never marked processed, owns no
\* Disaster (hence no Prediction) and is only handed to the alert
\* evaluation; a high or critical one reaches the alert evaluation only
\* through the cascade.
Handles(t, e) ==
  /\ tasks[t].idx \in DOMAIN tasks[t].events
  /\ tasks[t].events[tasks[t].idx] = e

NotificationsOf(e, r) ==
  {i \in DOMAIN alert_notifications :
     /\ alert_notifications[i].event_id = e
     /\ alert_notifications[i].recipient = r}

StatusMatchesChannel ==
  \A i \in DOMAIN alert_notifications :
    LET n == alert_notifications[i]
    IN /\ n.severity = cfg.ALERT_SEVERITY_THRESHOLD
       /\ IF cfg.SENDGRID_API_KEY /\ HasEmail(n.recipient)
          THEN n.channel = "email" /\ n.status \in {"sent", "failed"}
          ELSE n.channel = "log" /\ n.status = "logged"
       /\ n.sent_at <=> n.status = "sent"

OneNotificationPerRecipient ==
  /\ StatusMatchesChannel
  /\ \A t \in DOMAIN tasks :
       tasks[t].recipients > 0 /\ tasks[t].pc \in {"next", "raised"}
       => \A r \in 1..tasks[t].recipients :
            Cardinality(NotificationsOf(tasks[t].events[tasks[t].idx], r)) = 1

\* C14: the end of every cycle of a feed loop leaves the feed's registry row
\* with last_status success when the handler returned, or error with at most
\* 500 characters of last_error when it raised (unless the status update
\* itself failed), and a handler that raised is followed by the sleep, never
\* by the end of the loop.
EndsCycle(t) ==
  /\ tasks[t].kind = "loop"
  /\ tasks[t].pc \in {"returned", "raised"}
  /\ tasks'[t].pc = "wait"

StatusEveryCycle ==
  [][\A t \in DOMAIN tasks :
       /\ tasks[t].kind = "loop" /\ tasks[t].pc = "raised"
          => tasks'[t].pc \in {"raised", "wait"}
       /\ EndsCycle(t) /\ faults' = faults
          => LET row == external_data_sources'[tasks[t].feed]
             IN /\ row.present
                /\ row.last_status =
                     IF tasks[t].pc = "returned" THEN "success" ELSE "error"
                /\ \A n \in row.last_error : n <= LastErrorMax
                /\ row.last_status = "success" => row.last_error = NoError]_vars

\* C15: when stop() returns every feed task has ended and is_running is
\* false, and a feed loop starts a poll only while is_running is true, which
\* only start() makes it.
StopReturns(t) ==
  /\ tasks[t].kind = "stop" /\ tasks[t].pc = "gather"
  /\ tasks'[t].pc = "done"

StartsPoll(t) ==
  /\ tasks[t].kind = "loop" /\ tasks[t].pc = "wait"
  /\ tasks'[t].pc \notin {"wait", "done"}

StoppedAfterStop ==
  [][\A t \in DOMAIN tasks :
       /\ StopReturns(t)
          => /\ ~is_running'
             /\ \A u \in DOMAIN tasks' :
                  tasks'[u].kind = "loop" => tasks'[u].pc = "done"
       /\ StartsPoll(t) => is_running
       /\ ~is_running /\ is_running' => starts' = starts + 1]_vars

\* ------------------------------------------------------- chatbot properties
\* A step is a turn of session id, and the message of that turn.
Turn(id) ==
  /\ id \in DOMAIN sessions'
  /\ Turns(sessions'[id]) > 0
  /\ id \in DOMAIN sessions => sessions'[id] # sessions[id]

Said(id) ==
  sessions'[id].messages[Len(sessions'[id].messages) - 1].content

Replies(session) ==
  {session.messages[i].content[1] :
     i \in {j \in DOMAIN session.messages :
              session.messages[j].role = "assistant"}}

\* C16: in confirm an affirmative answer leads to submitted, a negative one
\* to ask_situation with the extracted data back at its defaults, and any
\* other answer leaves the state confirm and the extracted request data
\* (to_dict) as it was.
ConfirmAnswers ==
  [][\A id \in DOMAIN sessions :
       Turn(id) /\ sessions[id].state = CONFIRM
       => IF DetectYes(Said(id))
          THEN sessions'[id].state = SUBMITTED
          ELSE IF DetectNo(Said(id))
          THEN /\ sessions'[id].state = ASK_SITUATION
               /\ sessions'[id].extracted = ExtractedData
          ELSE /\ sessions'[id].state = CONFIRM
               /\ ToDict(sessions'[id].extracted)
                    = ToDict(sessions[id].extracted)]_vars

\* A session was asked again at confirm after an answer that was neither yes
\* nor no, and then started over on a no, losing the data it had gathered.
ReaskedThenReset ==
  \E id \in DOMAIN sessions :
    /\ "awaiting_confirmation" \in Replies(sessions[id])
    /\ sessions[id].messages[Len(sessions[id].messages)].content
         = <<"reset">>
    /\ sessions[id].state = ASK_SITUATION
    /\ sessions[id].extracted = ExtractedData

\* C17: a turn moves a session only along the transitions of the
\* conversation, and it goes from ask_people straight to confirm exactly
\* when the answer holds one of the medical words.
Transitions ==
  {<<GREETING, ASK_SITUATION>>, <<ASK_SITUATION, ASK_RESOURCE>>,
   <<ASK_RESOURCE, ASK_RESOURCE>>, <<ASK_RESOURCE, ASK_QUANTITY>>,
   <<ASK_QUANTITY, ASK_LOCATION>>, <<ASK_LOCATION, ASK_PEOPLE>>,
   <<ASK_PEOPLE, ASK_MEDICAL>>, <<ASK_PEOPLE, CONFIRM>>,
   <<ASK_MEDICAL, CONFIRM>>, <<CONFIRM, CONFIRM>>, <<CONFIRM, SUBMITTED>>,
   <<CONFIRM, ASK_SITUATION>>, <<SUBMITTED, SUBMITTED>>}

StateBefore(id) ==
  IF id \in DOMAIN sessions THEN sessions[id].state ELSE GREETING

OnlyListedTransitions ==
  [][\A id \in SessionIds :
       Turn(id)
       => /\ <<StateBefore(id), sessions'[id].state>> \in Transitions
          /\ StateBefore(id) = ASK_PEOPLE
             => (sessions'[id].state = CONFIRM
                 <=> Range(Said(id)) \cap MedicalWords # {})]_vars

\* A session repeated ask_resource, skipped ask_medical and was submitted.
RetriedSkippedSubmitted ==
  \E id \in DOMAIN sessions :
    /\ "retry" \in Replies(sessions[id])
    /\ "CONFIRM_skipped_medical_ask" \in Replies(sessions[id])
    /\ sessions[id].state = SUBMITTED

\* C18: a turn of a submitted session leaves its state submitted and its
\* extracted request data (to_dict) as it was.
SubmittedIsTerminal ==
  [][\A id \in DOMAIN sessions :
       Turn(id) /\ sessions[id].state = SUBMITTED
       => /\ sessions'[id].state = SUBMITTED
          /\ ToDict(sessions'[id].extracted)
               = ToDict(sessions[id].extracted)]_vars

\* A submitted session was written to again and answered that the request
\* is already submitted.
WrittenToAfterSubmitted ==
  \E id \in DOMAIN sessions :
    /\ sessions[id].state = SUBMITTED
    /\ "already_submitted" \in Replies(sessions[id])
    /\ sessions[id].extracted.resource_types # <<>>

\* C19: a session that was never reset is submitted at the latest in its
\* eighth turn.
Count(session, reply) ==
  Cardinality({i \in DOMAIN session.messages :
                 session.messages[i] = AssistantMessage(reply)})

FirstPass(session) ==
  session.state = SUBMITTED /\ Count(session, "reset") = 0

SubmittedAt(session) ==
  (CHOOSE i \in DOMAIN session.messages :
     session.messages[i] = AssistantMessage("SUBMITTED_MSG")) \div 2

SubmittedWithinEight ==
  \A id \in DOMAIN sessions :
    FirstPass(sessions[id]) => SubmittedAt(sessions[id]) <= 8

\* C19, as the code has it: a session that was never reset is submitted in
\* its seventh turn, plus one turn if the medical question was asked, plus
\* one for every repeated resource question and every repeated confirmation;
\* a session whose last answer at confirm was negative is in ask_situation.
SubmittedAfterRepeats ==
  \A id \in DOMAIN sessions :
    LET session == sessions[id]
    IN /\ FirstPass(session)
          => SubmittedAt(session)
               = 7 + Count(session, "MEDICAL_ASK") + Count(session, "retry")
                   + Count(session, "awaiting_confirmation")
       /\ session.messages[Len(session.messages)]
            = AssistantMessage("reset")
          => session.state = ASK_SITUATION

\* A session was submitted in its ninth turn, after a repeated resource
\* question.
SubmittedInNinthTurn ==
  \E id \in DOMAIN sessions :
    /\ FirstPass(sessions[id])
    /\ SubmittedAt(sessions[id]) = 9
    /\ Count(sessions[id], "retry") = 1

\* ----------------------------------------------------------- NLP properties
\* C20: for one base priority, a call with more signals never returns a
\* lower priority than a call with fewer, and a call with base critical
\* returns critical.
EscalationIsMonotone ==
  \A a, b \in nlp_calls :
    /\ a.base_priority = b.base_priority
       /\ Range(a.signals) \subseteq Range(b.signals)
       => IndexOf(a.result.priority) <= IndexOf(b.result.priority)
    /\ a.base_priority = "critical" => a.result.priority = "critical"

\* Two calls with the same base: the one with one more signal returned a
\* higher priority than the other.
MoreSignalsHigherPriority ==
  \E a, b \in nlp_calls :
    /\ a.base_priority = b.base_priority
    /\ a.signals # <<>>
    /\ Range(a.signals) \subseteq Range(b.signals)
    /\ Range(a.signals) # Range(b.signals)
    /\ IndexOf(a.result.priority) < IndexOf(b.result.priority)

\* C21: a call of escalate_priority with a base of the four levels returns
\* the level at the index of the base plus the largest boost of the signals,
\* at most the index of critical, and reports an escalation exactly when that
\* index is above the base's; without signals it returns the base, not
\* escalated; a base of critical is never reported as escalated.
EscalationAsSpecified ==
  \A c \in nlp_calls :
    LET base_idx == IndexOf(c.base_priority)
        boosts == {c.signals[k].severity_boost : k \in DOMAIN c.signals}
    IN /\ c.signals = <<>>
          => c.result = [priority |-> c.base_priority, escalated |-> FALSE]
       /\ c.signals # <<>>
          => \E new_idx \in DOMAIN PRIORITY_LEVELS :
               /\ new_idx = MinOf({base_idx + MaxOf(boosts),
                                   Len(PRIORITY_LEVELS)})
               /\ c.result.priority = PRIORITY_LEVELS[new_idx]
               /\ c.result.escalated = (new_idx > base_idx)
       /\ c.base_priority = "critical" => ~c.result.escalated

\* A call with base critical and a signal, and a call that was capped at
\* critical from a lower base.
CriticalAndCapped ==
  \E a, b \in nlp_calls :
    /\ a.base_priority = "critical" /\ a.signals # <<>>
    /\ b.base_priority = "high" /\ b.result.escalated
    /\ \E k \in DOMAIN b.signals : b.signals[k].severity_boost > 1

\* -------------------------------------------------------- triage properties
CallsOf(op) == {c \in nlp_calls : c.op = op}

Labels(signals) == {signals[k].label : k \in DOMAIN signals}

\* C22: extract_urgency_signals returns at most one signal per label, the
\* first match of that label's rule, with a label and boost of the rule
\* table, ordered by boost descending; classify_request reports the same
\* labels for the same text, each once.
SignalsPerLabelSorted ==
  /\ \A c \in CallsOf("extract_urgency_signals") :
        /\ \A i, j \in DOMAIN c.result :
              /\ c.result[i].label = c.result[j].label => i = j
              /\ i < j => c.result[i].severity_boost
                            >= c.result[j].severity_boost
        /\ \A i \in DOMAIN c.result :
              \E k \in DOMAIN URGENCY_RULES :
                /\ URGENCY_RULES[k].label = c.result[i].label
                /\ URGENCY_RULES[k].boost = c.result[i].severity_boost
                /\ Matches(URGENCY_RULES[k].patterns, c.text) # {}
                /\ c.result[i].offset
                     = MinOf(Matches(URGENCY_RULES[k].patterns, c.text))
  /\ \A c \in CallsOf("extract_urgency_signals"),
        d \in CallsOf("classify_request") :
        /\ Labels(d.result.urgency_signals) = Labels(c.result)
        /\ Len(d.result.urgency_signals) = Len(c.result)

\* A text with two matches of one rule and a match of a rule that stands
\* later in the table with a higher boost was given to both functions.
RepeatedAndReordered ==
  \E c \in CallsOf("extract_urgency_signals"),
     d \in CallsOf("classify_request") :
    /\ Len(c.result) = 2
    /\ c.result[1].label = "cardiac_symptom"
    /\ c.result[2].label = "injury"
    /\ Cardinality(Matches({<<{"wound"}>>}, c.text)) = 2
    /\ c.result[2].offset < c.result[1].offset

\* The score of a type for a text: the larger of the confidence of its
\* phrase rules that match and of a third of its keyword sum, at most one.
TypeScore(rtype, text) ==
  MaxOf({0}
        \cup {PHRASE_RULES[k].conf :
                k \in {j \in DOMAIN PHRASE_RULES :
                         /\ PHRASE_RULES[j].rtype = rtype
                         /\ Matches(PHRASE_RULES[j].patterns, text) # {}}}
        \cup {KeywordScore(RESOURCE_KEYWORDS[k].keywords, text) :
                k \in {j \in DOMAIN RESOURCE_KEYWORDS :
                         RESOURCE_KEYWORDS[j].rtype = rtype}})

ResourceTypes == {RESOURCE_KEYWORDS[k].rtype : k \in DOMAIN RESOURCE_KEYWORDS}

Reaching(text, least) == {t \in ResourceTypes : TypeScore(t, text) >= least}

\* The result lists the types with their scores, highest first, and returns
\* those of at least 0.3, in that order.
RanksTypes(c) ==
  /\ \A i \in DOMAIN c.result.scores :
        /\ c.result.scores[i].score
             = TypeScore(c.result.scores[i].rtype, c.text)
        /\ c.result.scores[i].score \in 1..ScoreOne
        /\ \A j \in DOMAIN c.result.scores :
              /\ i < j => c.result.scores[i].score >= c.result.scores[j].score
              /\ c.result.scores[i].rtype = c.result.scores[j].rtype => i = j
  /\ {c.result.scores[i].rtype : i \in DOMAIN c.result.scores}
       = Reaching(c.text, 1)
  /\ c.result.types
       = [i \in 1..Cardinality(Reaching(c.text, Score(3, 0))) |->
            c.result.scores[i].rtype]

\* C23 as stated: the types of at least 0.3, highest first, and Custom with
\* 0.3 whenever no type reaches 0.3.
CustomBelowThreshold ==
  \A c \in CallsOf("classify_resource_type") :
    IF Reaching(c.text, Score(3, 0)) = {} THEN c.result = Custom
    ELSE RanksTypes(c)

\* C23, amended: the types of at least 0.3, highest first; Custom with 0.3
\* when no type scores at all; the one highest type, with the scores as
\* computed, when some type scores and none reaches 0.3.
CustomWhenNothingScores ==
  \A c \in CallsOf("classify_resource_type") :
    IF Reaching(c.text, 1) = {} THEN c.result = Custom
    ELSE IF Reaching(c.text, Score(3, 0)) # {} THEN RanksTypes(c)
    ELSE /\ RanksTypes([c EXCEPT !.result.types = <<>>])
         /\ c.result.types = <<c.result.scores[1].rtype>>

\* A text whose only type scores below 0.3 was classified.
BelowThresholdClassified ==
  \E c \in CallsOf("classify_resource_type") :
    /\ c.result.types = <<"Food">>
    /\ c.result.scores[1].score < Score(3, 0)

\* ----------------------------------------------------- allocation properties
Returned == solve_result[1].returned

Paired == solve_result[1].x

\* The allocations of the result are the pairs chosen, one for one.
AllocationOf(p, allocation) ==
  /\ allocation.resource_id = solve_input.resources[p[1]].id
  /\ allocation.type = solve_input.resources[p[1]].resource_type
  /\ allocation.quantity = solve_input.needs[p[2]].quantity
  /\ allocation.distance_km
       = Haversine(solve_input.resources[p[1]].location_id)

\* C24: every allocation returned pairs a resource and a need of the same
\* type, the resource holding at least the quantity needed and lying within
\* max_distance_km.
AllocationsAreEligible ==
  solve_result # <<>>
  => /\ \A k \in DOMAIN Returned.allocations :
          \E p \in Paired : AllocationOf(p, Returned.allocations[k])
     /\ Len(Returned.allocations) = Cardinality(Paired)
     /\ \A p \in Paired :
          /\ solve_input.resources[p[1]].resource_type
               = solve_input.needs[p[2]].need_type
          /\ solve_input.resources[p[1]].quantity
               >= solve_input.needs[p[2]].quantity
          /\ Haversine(solve_input.resources[p[1]].location_id)
               <= solve_input.max_distance_km

\* One need was met and another was not, though a resource of its type and
\* quantity exists beyond the maximal distance.
MetAndOutOfReach ==
  /\ solve_result # <<>>
  /\ Len(Returned.allocations) = 1
  /\ Len(Returned.unmet_needs) = 1
  /\ \E i \in DOMAIN solve_input.resources, j \in DOMAIN solve_input.needs :
       /\ \A p \in Paired : p[1] # i /\ p[2] # j
       /\ solve_input.resources[i].resource_type
            = solve_input.needs[j].need_type
       /\ solve_input.resources[i].quantity >= solve_input.needs[j].quantity
       /\ solve_input.resources[i].location_id = "beyond"

\* C25: in a result, each resource appears in at most one allocation and
\* each need is met by at most one allocation.
OneAllocationEach ==
  solve_result # <<>>
  => /\ \A k, l \in DOMAIN Returned.allocations :
          Returned.allocations[k].resource_id
            = Returned.allocations[l].resource_id => k = l
     /\ \A p, q \in Paired : p[1] = q[1] \/ p[2] = q[2] => p = q
     /\ \A j \in DOMAIN solve_input.needs :
          Cardinality({k \in DOMAIN Returned.allocations :
                         \E p \in Paired :
                           /\ p[2] = j
                           /\ AllocationOf(p, Returned.allocations[k])})
            <= 1

\* Two needs of one type compete for resources that could each serve both,
\* and each need got a resource of its own.
SharedOutOneEach ==
  /\ solve_result # <<>>
  /\ Len(solve_input.needs) = 2
  /\ Len(Returned.allocations) = 2
  /\ \A i \in DOMAIN solve_input.resources, j \in DOMAIN solve_input.needs :
       <<i, j>> \in Eligible(solve_input.resources, solve_input.needs,
                             solve_input.max_distance_km)

SubmittedEligible ==
  Eligible(solve_input.resources, solve_input.needs,
           solve_input.max_distance_km)

ObjectiveOf(x) ==
  Objective(x, solve_input.resources, solve_input.needs, solve_input.weights,
            solve_input.max_distance_km)

BothPairsAllocated ==
  /\ solve_result # <<>>
  /\ solve_input.weights = DefaultWeights
  /\ SubmittedEligible = {<<1, 1>>, <<2, 2>>}
  /\ solve_input.resources[1].location_id = "near"
  /\ solve_input.resources[2].location_id = "far"
  /\ Len(Returned.allocations) = 2

\* ------------------------------------------------- allocate handler properties
Done(k) == allocate_calls[k].pc = "done"

Response(k) == allocate_calls[k].response[1]

Problem(k) ==
  [resources |-> AvailableOf(allocate_calls[k].raw_resources),
   needs |-> NeedsOf(allocate_calls[k].request.required_resources)]

NothingToSolve(k) ==
  Problem(k).resources = <<>> \/ Problem(k).needs = <<>>

NoEligiblePair(k) ==
  /\ ~NothingToSolve(k)
  /\ Eligible(Problem(k).resources, Problem(k).needs,
              allocate_calls[k].request.max_distance_km) = {}

AllUnmet(k) ==
  /\ Response(k).allocations = <<>>
  /\ Response(k).unmet_needs
       = [j \in DOMAIN Problem(k).needs |->
            [type |-> Problem(k).needs[j].need_type,
             quantity |-> Problem(k).needs[j].quantity,
             urgency |-> Problem(k).needs[j].urgency]]

\* C27 as it is stated: whenever there is nothing to solve or no optimal
\* solution is reached, the result has no allocations, lists every need as
\* unmet and reports a solver_status out of optimal, infeasible_no_eligible,
\* trivial_empty and solver_timeout.
FailureStatusAsListed ==
  \A k \in DOMAIN allocate_calls :
    Done(k) /\ (NothingToSolve(k) \/ NoEligiblePair(k)
                  \/ Response(k).solver_status # "Optimal")
    => /\ AllUnmet(k)
       /\ Response(k).solver_status
            \in {"optimal", "infeasible_no_eligible", "trivial_empty",
                 "solver_timeout"}

\* C27: whenever there is nothing to solve or no optimal solution is
\* reached, the result has no allocations and lists every need as unmet; its
\* solver_status is trivial_empty when there are no resources or no needs,
\* infeasible_no_eligible when no pair is eligible, and otherwise the status
\* name of the solver (Not Solved when it ran out of time); the allocate
\* handler then leaves every row of the resources as it was.
FailureNamesCause ==
  /\ [](\A k \in DOMAIN allocate_calls :
          Done(k)
          => /\ NothingToSolve(k)
                  <=> Response(k).solver_status = "trivial_empty"
             /\ NoEligiblePair(k)
                  <=> Response(k).solver_status = "infeasible_no_eligible"
             /\ Response(k).solver_status
                  \in {"trivial_empty", "infeasible_no_eligible",
                       "Not Solved", "Optimal"}
             /\ Response(k).solver_status # "Optimal" => AllUnmet(k))
  /\ [][\A k \in DOMAIN allocate_calls :
          /\ allocate_calls[k].pc = "read"
          /\ allocate_calls'[k].pc = "done"
          /\ allocate_calls'[k].response[1].allocations = <<>>
          => resource_table' = resource_table]_vars

\* The solver ran out of time on a problem with an eligible pair: the needs
\* are all unmet and the resource that could have served is still available.
TimedOutNothingMarked ==
  \E k \in DOMAIN allocate_calls :
    /\ Done(k)
    /\ Response(k).solver_status = "Not Solved"
    /\ Response(k).unmet_needs # <<>>
    /\ AllUnmet(k)
    /\ resource_log = <<>>
    /\ \A i \in DOMAIN resource_table :
         resource_table[i].status = "available"

\* C28: for any interleaving of allocate requests, no resource is returned
\* in the allocations of two requests, and a resource marked allocated to
\* one disaster is not assigned again without a deallocate in between: of
\* two writes of allocate_resources that mark the same resource, the later
\* comes after a deallocate of that resource.
NoOverlappingClaims ==
  \A m, n \in DOMAIN resource_log :
    /\ m < n
    /\ resource_log[m].op = "allocate"
    /\ resource_log[n].op = "allocate"
    => \A resource_id \in resource_log[m].ids \cap resource_log[n].ids :
         \E q \in (m + 1)..(n - 1) :
           /\ resource_log[q].op = "deallocate"
           /\ resource_id \in resource_log[q].ids

\* ------------------------------------------------ resource request properties
\* C29: update_resource_request modifies a request only if its status is
\* pending at the time of the write, also when another actor changes the
\* status between the check of the handler and its update: a row that the
\* update changes was pending just before.
EditedOnlyWhilePending ==
  [][\A k \in DOMAIN request_calls :
       /\ request_calls[k].op = "update"
       /\ request_calls[k].pc = "checked"
       /\ request_calls'[k].pc = "done"
       => \A row \in resource_requests \ resource_requests' :
            row.status = "pending"]_vars

\* C30 as it is stated: a cancellation removes a pending request and
\* transitions a request of every other status to rejected.
CancelRejectsOtherwise ==
  [][\A k \in DOMAIN request_calls' :
       /\ request_calls'[k].op = "delete"
       /\ request_calls'[k].pc = "done"
       /\ k \in DOMAIN request_calls => request_calls[k].pc # "done"
       /\ request_calls'[k].current_status \notin {"pending", NoValue}
       => \A row \in resource_requests' :
            row.id = request_calls'[k].request_id
            => row.status = "rejected"]_vars

\* C30: a cancellation that reads the status pending removes the request;
\* one that reads approved, assigned or in_progress sets it to rejected with
\* the reason "Cancelled by victim"; one that reads completed or rejected is
\* answered with 400 and writes nothing.
CancelByStatusRead ==
  /\ [](\A k \in DOMAIN request_calls :
          request_calls[k].op = "delete"
          => /\ request_calls[k].pc = "delete"
                  => request_calls[k].current_status = "pending"
             /\ request_calls[k].pc = "reject"
                  => request_calls[k].current_status
                       \in {"approved", "assigned", "in_progress"}
             /\ request_calls[k].current_status
                  \in {"pending", "approved", "assigned", "in_progress"}
                  => request_calls[k].status_code \in {0, 200}
             /\ request_calls[k].current_status \in {"completed", "rejected"}
                  => /\ request_calls[k].pc = "done"
                     /\ request_calls[k].status_code = 400)
  /\ [][\A k \in DOMAIN request_calls' :
          /\ request_calls'[k].op = "delete"
          /\ request_calls'[k].pc = "done"
          /\ k \in DOMAIN request_calls => request_calls[k].pc # "done"
          => IF k \notin DOMAIN request_calls
             THEN resource_requests' = resource_requests
             ELSE \A row \in resource_requests' :
                    row.id = request_calls[k].request_id
                    => /\ request_calls[k].pc = "reject"
                       /\ row.status = "rejected"
                       /\ row.rejection_reason = "Cancelled by victim"]_vars

\* The cancellation of a completed request was refused, and the request is
\* still completed.
CompletedNotCancelled ==
  \E k \in DOMAIN request_calls :
    /\ request_calls[k].op = "delete"
    /\ request_calls[k].current_status = "completed"
    /\ request_calls[k].status_code = 400
    /\ \E row \in resource_requests :
         /\ row.id = request_calls[k].request_id
         /\ row.status = "completed"

\* ------------------------------------------------------ retraining properties
Unfinished == {k \in DOMAIN retrain_calls : retrain_calls[k].pc # "done"}

Training ==
  {k \in DOMAIN retrain_calls : retrain_calls[k].pc \in {"training", "loading"}}

\* C31: at most one training job runs at a time; a retraining request that
\* arrives while a job that was accepted has not finished is answered 409;
\* and the flag is false once every job has ended.
OneTrainingJobAtATime ==
  /\ [](Cardinality(Training) <= 1)
  /\ [](\A k \in DOMAIN retrain_calls :
          retrain_calls[k].unfinished # {} => retrain_calls[k].status_code = 409)
  /\ [](Unfinished = {} => ~training_in_progress)

\* The part of C31 that the code keeps: when no job is unfinished the flag
\* is false, whether the jobs succeeded or not.
FlagClearedAfterJobs == Unfinished = {} => ~training_in_progress

\* --------------------------------------------------------- adapter properties
\* The polls whose upstream call has just ended, and where they went.
AfterFetch(t) ==
  /\ t \in DOMAIN tasks
  /\ tasks[t].pc = "fetch"
  /\ tasks'[t].pc \notin {"fetch", "done"}

\* An adapter without its credentials never calls upstream: it is in the
\* mock branch from the start of the poll.
KeylessPollsMock ==
  \A t \in DOMAIN tasks :
    ~HasKey(tasks[t].feed) => tasks[t].pc \notin {"fetch", "store_try"}

StopEndsAnomalyLoop ==
  /\ [][anomaly_detector.stopped /\ anomaly_detector.pc # "detecting"
        => anomaly_detector'.pc # "detecting"]_vars
  /\ (anomaly_detector.stopped ~> anomaly_detector.pc = "done")

\* The same for a stop that falls after the first step of the loop task,
\* during a detection or during the sleep.
StopAfterStartEndsLoop ==
  /\ [][anomaly_detector.stopped /\ ~anomaly_detector.running
          /\ anomaly_detector.pc \notin {"created", "detecting"}
        => anomaly_detector'.pc # "detecting"]_vars
  /\ (anomaly_detector.stopped /\ ~anomaly_detector.running
          /\ anomaly_detector.pc # "created"
        ~> anomaly_detector.pc = "done")

\* The stop fell into a detection, and into the sleep.
StoppedWhileDetecting ==
  /\ anomaly_detector.stopped /\ ~anomaly_detector.running
  /\ anomaly_detector.pc = "detecting"

StoppedWhileSleeping ==
  /\ anomaly_detector.stopped /\ ~anomaly_detector.running
  /\ anomaly_detector.pc = "sleeping" /\ anomaly_detector.left > 0

\* ------------------------------------------------------- processed properties
DisasterIdsStored == {disasters[i].id : i \in DOMAIN disasters}

\* C35: an ingested event is processed only if a Disaster row with its
\* disaster_id exists, and when an event is marked processed that row is
\* already stored.
ProcessedHasDisaster ==
  /\ [](\A e \in DOMAIN ingested_events :
          ingested_events[e].processed =>
            ingested_events[e].disaster_id \in DisasterIdsStored)
  /\ [][\A e \in DOMAIN ingested_events :
          ~ingested_events[e].processed /\ ingested_events'[e].processed =>
            ingested_events'[e].disaster_id \in DisasterIdsStored]_vars

\* An event is processed and linked to the disaster created for it.
ProcessedAndLinked ==
  \E e \in DOMAIN ingested_events :
    /\ ingested_events[e].processed
    /\ \E i \in DOMAIN disasters :
         /\ disasters[i].id = ingested_events[e].disaster_id
         /\ disasters[i].event = ingested_events[e].id

\* ------------------------------------------------ chatbot priority properties
Rank(priority) == IndexOf(priority)

\* The negative answer to the confirmation, which starts the next pass.
ConfirmReset(id) ==
  /\ sessions[id].state = CONFIRM
  /\ sessions'[id].state = ASK_SITUATION

\* C36: the recommended priority of a session is medium, high or critical,
\* and from one message to the next it does not decrease, except when the
\* negative answer to the confirmation resets the extracted data.
PriorityNeverDecreases ==
  /\ [](\A id \in DOMAIN sessions :
          sessions[id].extracted.recommended_priority
            \in {"medium", "high", "critical"})
  /\ [][\A id \in DOMAIN sessions \cap DOMAIN sessions' :
          ~ConfirmReset(id) =>
            Rank(sessions'[id].extracted.recommended_priority)
              >= Rank(sessions[id].extracted.recommended_priority)]_vars

\* The situation was "trapped" and the answer about the people "wound": the
\* weaker signal was added and the priority is still critical.
WeakSignalAfterStrong ==
  \E id \in DOMAIN sessions :
    /\ sessions[id].state \in {ASK_MEDICAL, CONFIRM}
    /\ sessions[id].extracted.situation_description = <<"trapped">>
    /\ Len(sessions[id].extracted.urgency_signals) >= 2
    /\ sessions[id].extracted.urgency_signals[
         Len(sessions[id].extracted.urgency_signals)].severity_boost = 1
    /\ sessions[id].extracted.recommended_priority = "critical"

\* ------------------------------------------------- chatbot session properties
Stored(all, id) == IF id \in DOMAIN all THEN <<all[id]>> ELSE <<>>

\* What a first message makes of a session that did not exist.
FirstMessage(session) ==
  /\ Len(session.messages) = 2
  /\ session.messages[2].content = <<"GREETING_MSG">>
  /\ session.state = ASK_SITUATION
  /\ session.extracted =
       [ExtractedData EXCEPT !.raw_messages = <<session.messages[1].content>>]

\* C37: a call changes at most the session whose id it carries; a message
\* with an id that has no session (never used, or deleted) is handled in a
\* new session that starts in greeting with the default data; and
\* delete_session returns true exactly when the session existed, and
\* removes it.
SessionsIndependent ==
  [][/\ \A a, b \in ChatSessionIds :
          a # b /\ Stored(sessions, a) # Stored(sessions', a)
            => Stored(sessions, b) = Stored(sessions', b)
     /\ \A id \in DOMAIN sessions' \ DOMAIN sessions :
          FirstMessage(sessions'[id])
     /\ delete_returned' # delete_returned \/ DOMAIN sessions' # DOMAIN sessions
          => \/ /\ DOMAIN sessions \subseteq DOMAIN sessions'
                /\ UNCHANGED delete_returned
             \/ /\ delete_returned'[1].returned
                    = (delete_returned'[1].session_id \in DOMAIN sessions)
                /\ DOMAIN sessions'
                    = DOMAIN sessions \ {delete_returned'[1].session_id}]_vars

\* A session was deleted (the call returned true) and its id is in use
\* again, in a new session, next to another session that is further on.
DeletedAndStartedAgain ==
  /\ delete_returned # <<>>
  /\ delete_returned[1].returned
  /\ delete_returned[1].session_id \in DOMAIN sessions
  /\ FirstMessage(sessions[delete_returned[1].session_id])
  /\ \E other \in DOMAIN sessions :
       /\ other # delete_returned[1].session_id
       /\ sessions[other].state = ASK_QUANTITY

\* ------------------------------------------------------- partition properties
\* The needs that are the target of a chosen pair.
Targeted == {j \in DOMAIN solve_input.needs : \E p \in Paired : p[2] = j}

NotTargeted ==
  SelectSeq([j \in DOMAIN solve_input.needs |-> j],
            LAMBDA j : j \notin Targeted)

\* C38: a result of solve_allocation splits the needs: each need is the
\* target of exactly one allocation or is listed once among the unmet needs,
\* so the two lists together are as long as the list of needs, and
\* coverage_pct is the share of the needs with an allocation, in percent
\* (rounded to two decimals; 0 when there are no needs).
ResultPartitionsNeeds ==
  solve_result # <<>> =>
    LET n == Len(solve_input.needs)
        met == Len(Returned.allocations)
    IN /\ met + Len(Returned.unmet_needs) = n
       /\ met = Cardinality(Paired)
       /\ met = Cardinality(Targeted)
       /\ Returned.unmet_needs =
            [k \in DOMAIN NotTargeted |->
               Unmet(solve_input.needs, NotTargeted[k])]
       /\ IF n = 0 THEN Returned.coverage_pct = 0
          ELSE /\ 2 * (Returned.coverage_pct * n - 10000 * met) <= n
               /\ 2 * (10000 * met - Returned.coverage_pct * n) <= n

\* One of two needs got its allocation and the other is listed as unmet:
\* the coverage is 50 percent.
HalfCovered ==
  /\ solve_result # <<>>
  /\ Len(solve_input.needs) = 2
  /\ Len(Returned.allocations) = 1
  /\ Len(Returned.unmet_needs) = 1
  /\ Returned.coverage_pct = 5000

\* ------------------------------------------------- request creation properties
Creations == {request_calls[k] : k \in DOMAIN request_calls}

\* C39: the priority classify_request recommends is never below the
\* user's; the request is stored with the recommended priority exactly when
\* the classification escalated, and with the user's priority otherwise,
\* also when the classification failed.
TriageNeverLowersPriority ==
  \A call \in Creations :
    /\ \A c \in call.classification :
         /\ Rank(c.recommended_priority) >= Rank(call.request_data.priority)
         /\ c.priority_was_escalated
              = (c.recommended_priority # call.request_data.priority)
    /\ \A r \in call.row :
         /\ resource_requests[r].priority =
              IF \E c \in call.classification : c.priority_was_escalated
              THEN (CHOOSE c \in call.classification : TRUE).recommended_priority
              ELSE call.request_data.priority
         /\ call.classified = "raise" =>
              /\ resource_requests[r].priority = call.request_data.priority
              /\ resource_requests[r].status = "pending"
    /\ call.classified = "raise" /\ call.status_code = 201 => call.row # Unset

\* A request of low priority whose description escalated it was stored with
\* the recommended priority.
EscalatedAndStored ==
  \E call \in Creations :
    /\ call.request_data.priority = "low"
    /\ \E c \in call.classification : c.priority_was_escalated
    /\ \E r \in call.row : resource_requests[r].priority # "low"

\* A request whose classification failed was stored with the user's priority.
FailedAndStored ==
  \E call \in Creations :
    /\ call.classified = "raise"
    /\ call.request_data.priority = "high"
    /\ \E r \in call.row : resource_requests[r].priority = "high"

====
